---- MODULE Spec2Model ----
(***************************************************************************)
(* A model of the Florida court opinion feed generator: the scraper's      *)
(* strategy cascade over a rendered listing page (scraper.py), the         *)
(* summarizer's loop over opinions (summarizer.py) and the run of main     *)
(* (main.py).                                                              *)
(*                                                                         *)
(* Time is counted in days; a datetime is the number of its day in 2024    *)
(* (2024-01-15 is 15, 2024-02-01 is 32).  A text is a sequence of tokens   *)
(* (strings); a regular expression search over a text looks at the tokens  *)
(* in order, and what it finds in one token is given by a table over the   *)
(* vocabulary of the model.  text_content is modelled by its length in     *)
(* characters, the only thing the code reads of it (emptiness, length).    *)
(***************************************************************************)
EXTENDS Integers, Sequences, FiniteSets, TLC

(***************************************************************************)
(* Bounds of the model.                                                    *)
(***************************************************************************)
NumCourts == 2      \* courts of COURTS that are scraped (the first ones)
MaxRows == 2        \* data rows of a table
FirstNow == 18      \* the earliest day a run starts (2024-01-18)
MaxNow == 19        \* the clock does not advance past this day
MaxPdfPages == 2    \* pages of a downloaded PDF

(***************************************************************************)
(* config.py                                                               *)
(***************************************************************************)
LOOKBACK_DAYS == 7

COURTS ==
  << [court_id |-> "florida_supreme_court", name |-> "Supreme Court of Florida",
      short_name |-> "FLSC", base_url |-> "https://supremecourt.flcourts.gov",
      recent_url |-> "https://supremecourt.flcourts.gov/case-information/opinions/most-recent-opinions",
      archive_url |-> "https://supremecourt.flcourts.gov/Opinions/Archived-Opinions",
      opinions_url |-> "https://supremecourt.flcourts.gov/content/download/opinion-search-results"],
     [court_id |-> "1dca", name |-> "First District Court of Appeal",
      short_name |-> "1st DCA", base_url |-> "https://1dca.flcourts.gov",
      recent_url |-> "https://1dca.flcourts.gov/Opinions/Most-Recent-Written-Opinions",
      archive_url |-> "https://1dca.flcourts.gov/Opinions/Opinions-Archive",
      opinions_url |-> "https://1dca.flcourts.gov/Opinions"],
     [court_id |-> "2dca", name |-> "Second District Court of Appeal",
      short_name |-> "2nd DCA", base_url |-> "https://2dca.flcourts.gov",
      recent_url |-> "https://2dca.flcourts.gov/Opinions/Most-Recent-Written-Opinions",
      archive_url |-> "https://2dca.flcourts.gov/Opinions/Opinions-Archive",
      opinions_url |-> "https://2dca.flcourts.gov/Opinions"],
     [court_id |-> "3dca", name |-> "Third District Court of Appeal",
      short_name |-> "3rd DCA", base_url |-> "https://3dca.flcourts.gov",
      recent_url |-> "https://3dca.flcourts.gov/Opinions/Most-Recent-Opinion-Release",
      archive_url |-> "https://3dca.flcourts.gov/Opinions/Opinions-Archive",
      opinions_url |-> "https://3dca.flcourts.gov/Opinions"],
     [court_id |-> "4dca", name |-> "Fourth District Court of Appeal",
      short_name |-> "4th DCA", base_url |-> "https://4dca.flcourts.gov",
      recent_url |-> "https://4dca.flcourts.gov/Opinions/Most-Recent-Written-Opinions",
      archive_url |-> "https://4dca.flcourts.gov/Opinions/Opinions-Archive",
      opinions_url |-> "https://4dca.flcourts.gov/Opinions"],
     [court_id |-> "5dca", name |-> "Fifth District Court of Appeal",
      short_name |-> "5th DCA", base_url |-> "https://5dca.flcourts.gov",
      recent_url |-> "https://5dca.flcourts.gov/Opinions/Most-Recent-Written-Opinions",
      archive_url |-> "https://5dca.flcourts.gov/Opinions/Opinions-Archive",
      opinions_url |-> "https://5dca.flcourts.gov/Opinions"],
     [court_id |-> "6dca", name |-> "Sixth District Court of Appeal",
      short_name |-> "6th DCA", base_url |-> "https://6dca.flcourts.gov",
      recent_url |-> "https://6dca.flcourts.gov/Opinions/Most-Recent-Written-Opinions",
      archive_url |-> "https://6dca.flcourts.gov/Opinions/Opinions-Archive",
      opinions_url |-> "https://6dca.flcourts.gov/Opinions"] >>

\* The courts a run of the model iterates over, in configuration order.
Courts == SubSeq(COURTS, 1, IF NumCourts < Len(COURTS) THEN NumCourts ELSE Len(COURTS))

(***************************************************************************)
(* Sequence helpers.                                                       *)
(***************************************************************************)
RECURSIVE SeqsUpTo(_, _)
\* All sequences over S of length at most n.
SeqsUpTo(S, n) ==
  IF n = 0 THEN {<<>>}
  ELSE LET shorter == SeqsUpTo(S, n - 1)
       IN shorter \cup {Append(s, x) : s \in {t \in shorter : Len(t) = n - 1}, x \in S}

RECURSIVE Concat(_)
\* The concatenation of a sequence of sequences.
Concat(ss) == IF ss = <<>> THEN <<>> ELSE Head(ss) \o Concat(Tail(ss))

RECURSIVE JoinText(_)
\* get_text(strip=True) of an element whose text pieces are the tokens:
\* the stripped pieces are joined with no separator.
JoinText(text) == IF text = <<>> THEN "" ELSE Head(text) \o JoinText(Tail(text))

Range(s) == {s[i] : i \in DOMAIN s}

(***************************************************************************)
(* Regular expressions of scraper.py over the vocabulary of the model.     *)
(***************************************************************************)
\* re.search(r"(SC\d{4}-\d+|\d{4}-\d{2,5})", s): group(1), or "" for no match.
\* An ISO date such as 2024-01-15 holds the case-number shape 2024-01.
CaseSearchTok(s) ==
  CASE s = "SC2024-123" -> "SC2024-123"
    [] s = "SC2024-124" -> "SC2024-124"
    [] s = "2024-456" -> "2024-456"
    [] s = "SC2024-123 Smith v. Jones" -> "SC2024-123"
    [] s = "/opinions/SC2024-123.pdf" -> "SC2024-123"
    [] s = "/case/SC2024-123" -> "SC2024-123"
    [] s = "2024-01-15" -> "2024-01"
    [] OTHER -> ""

RECURSIVE CaseSearch(_)
\* The same search over a text: the leftmost match.
CaseSearch(text) ==
  IF text = <<>> THEN ""
  ELSE IF CaseSearchTok(Head(text)) # "" THEN CaseSearchTok(Head(text))
  ELSE CaseSearch(Tail(text))

\* re.search(r"(\d{1,2}/\d{1,2}/\d{2,4}|\w+ \d{1,2},? \d{4}|\d{4}-\d{2}-\d{2})", s):
\* group(1), or "" for no match.
DateSearchTok(s) ==
  CASE s = "01/15/2024" -> "01/15/2024"
    [] s = "01/11/2024" -> "01/11/2024"
    [] s = "01/05/2024" -> "01/05/2024"
    [] s = "January 15, 2024" -> "January 15, 2024"
    [] s = "2024-01-15" -> "2024-01-15"
    [] s = "99/99/2024" -> "99/99/2024"
    [] s = "01/15/24" -> "01/15/24"
    [] OTHER -> ""

RECURSIVE DateSearch(_)
DateSearch(text) ==
  IF text = <<>> THEN ""
  ELSE IF DateSearchTok(Head(text)) # "" THEN DateSearchTok(Head(text))
  ELSE DateSearch(Tail(text))

\* ".pdf" in href.lower() or "download" in href.lower()
IsDocHref(href) ==
  href \in {"/opinions/SC2024-123.pdf", "/download/9981", "/files/downloads-77"}

\* re.compile(r"(\.pdf|/download/|/content/download)", re.I) of strategy 2
PdfLinkRe(href) == href \in {"/opinions/SC2024-123.pdf", "/download/9981"}

\* re.compile(r"(\.pdf|download)", re.I) of _parse_container
ContainerLinkRe(href) ==
  href \in {"/opinions/SC2024-123.pdf", "/download/9981", "/files/downloads-77"}

\* re.compile(r"(opinion|case|result|item|entry|row|record|search)", re.I)
\* over a class attribute
ContainerClassRe(cls) == cls \in {"opinion-item", "views-row", "search-result"}

\* urljoin(base_url, href) for a relative href with an absolute path
urljoin(base_url, href) == base_url \o href

\* str.lower() over the header texts of the model
Lower(s) ==
  CASE s = "Case Number" -> "case number"
    [] s = "Case Name" -> "case name"
    [] s = "Date" -> "date"
    [] s = "Type" -> "type"
    [] s = "Lower Tribunal" -> "lower tribunal"
    [] s = "Case No." -> "case no."
    [] s = "Style" -> "style"
    [] s = "Date Filed" -> "date filed"
    [] s = "Case Type" -> "case type"
    [] OTHER -> s

\* kw in h, for the keywords _parse_table_row looks for in a lower-cased header
Contains(h, kw) ==
  kw \in (CASE h = "case number" -> {"case", "number"}
            [] h = "case name" -> {"case", "name"}
            [] h = "date" -> {"date"}
            [] h = "type" -> {"type"}
            [] h = "lower tribunal" -> {"lower", "tribunal"}
            [] h = "case no." -> {"case"}
            [] h = "style" -> {"style"}
            [] h = "date filed" -> {"date", "filed"}
            [] h = "case type" -> {"case", "type"}
            [] OTHER -> {})

(***************************************************************************)
(* scraper.py: Opinion                                                     *)
(***************************************************************************)
Opinion(case_number, case_name, court_id, court_name, date, opinion_type, pdf_url, page_url, lower_tribunal) ==
  [case_number |-> case_number, case_name |-> case_name, court_id |-> court_id,
   court_name |-> court_name, date |-> date, opinion_type |-> opinion_type,
   pdf_url |-> pdf_url, page_url |-> page_url, text_content |-> 0,
   summary |-> "", lower_tribunal |-> lower_tribunal]

\* A mutant of unique_id: the id leaves out the court.
UniqueIdWithoutCourt(op) == op.case_number

\* @property unique_id: f"{self.court_id}:{self.case_number}"
unique_id(op) == op.court_id \o ":" \o op.case_number

(***************************************************************************)
(* scraper.py: _parse_date                                                 *)
(***************************************************************************)
formats ==
  << "%m/%d/%Y", "%m/%d/%y", "%B %d, %Y", "%B %d %Y",
     "%b %d, %Y", "%b %d %Y", "%Y-%m-%d", "%d-%b-%Y", "%m-%d-%Y" >>

\* datetime.strptime(date_str, fmt): {the day}, or {} for a ValueError.
strptime(date_str, fmt) ==
  CASE date_str = "01/15/2024" /\ fmt = "%m/%d/%Y" -> {15}
    [] date_str = "01/11/2024" /\ fmt = "%m/%d/%Y" -> {11}
    [] date_str = "01/05/2024" /\ fmt = "%m/%d/%Y" -> {5}
    [] date_str = "01/15/24" /\ fmt = "%m/%d/%y" -> {15}
    [] date_str = "January 15, 2024" /\ fmt = "%B %d, %Y" -> {15}
    [] date_str = "2024-01-15" /\ fmt = "%Y-%m-%d" -> {15}
    [] date_str = "01-05-2024" /\ fmt = "%m-%d-%Y" -> {5}
    [] date_str = "1/5/2024" /\ fmt = "%m/%d/%Y" -> {5}
    [] date_str = "May 15, 2024" /\ fmt \in {"%B %d, %Y", "%b %d, %Y"} -> {136}
    [] date_str = "May 15 2024" /\ fmt \in {"%B %d %Y", "%b %d %Y"} -> {136}
    [] date_str = "Jan 15, 2024" /\ fmt = "%b %d, %Y" -> {15}
    [] date_str = "Jan 15 2024" /\ fmt = "%b %d %Y" -> {15}
    [] date_str = "15-Jan-2024" /\ fmt = "%d-%b-%Y" -> {15}
    [] OTHER -> {}

\* date_str.strip(): the strings of the model that carry outer white space.
Strip(date_str) ==
  CASE date_str = " " -> ""
    [] date_str = "  01/15/2024  " -> "01/15/2024"
    [] date_str = "May 15, 2024 " -> "May 15, 2024"
    [] OTHER -> date_str

\* An exception that leaves _parse_date, as a value no date has.
ValueError == -1

\* A mutant of ParseDateFrom: no try/except around strptime.
ParseDateFromNoExcept(date_str, i) ==
  IF strptime(date_str, formats[i]) # {} THEN strptime(date_str, formats[i])
  ELSE {ValueError}

RECURSIVE ParseDateFrom(_, _)
ParseDateFrom(date_str, i) ==
  IF i > Len(formats) THEN {}
  ELSE IF strptime(date_str, formats[i]) # {} THEN strptime(date_str, formats[i])
  ELSE ParseDateFrom(date_str, i + 1)

\* Optional[datetime] is {} (None) or {day}.
_parse_date(date_str) == IF date_str = "" THEN {} ELSE ParseDateFrom(Strip(date_str), 1)

\* The value of an Optional that is not None.
Some(opt) == CHOOSE v \in opt : TRUE

\* A mutant of DateOr: a date that does not parse becomes the epoch.
DateOrEpoch(parsed, default) == IF parsed = {} THEN 0 ELSE Some(parsed)

\* _parse_date(s) or default
DateOr(parsed, default) == IF parsed = {} THEN default ELSE Some(parsed)

(***************************************************************************)
(* scraper.py: _is_recent, _dedupe                                         *)
(***************************************************************************)
\* A mutant of _is_recent: the cutoff itself is outside the window.
IsRecentStrict(opinion, cutoff) == opinion.date > cutoff

_is_recent(opinion, cutoff) == opinion.date >= cutoff

\* A mutant of _dedupe: nothing is removed.
NoDedupe(opinions) == opinions

RECURSIVE DedupeByCaseNumberLoop(_, _, _)
DedupeByCaseNumberLoop(opinions, seen, deduped) ==
  IF opinions = <<>> THEN deduped
  ELSE IF Head(opinions).case_number \notin seen
       THEN DedupeByCaseNumberLoop(Tail(opinions), seen \cup {Head(opinions).case_number},
                                   Append(deduped, Head(opinions)))
       ELSE DedupeByCaseNumberLoop(Tail(opinions), seen, deduped)

\* A mutant of _dedupe: the key is the case number alone.
DedupeByCaseNumber(opinions) == DedupeByCaseNumberLoop(opinions, {}, <<>>)

RECURSIVE DedupeLoop(_, _, _)
DedupeLoop(opinions, seen, deduped) ==
  IF opinions = <<>> THEN deduped
  ELSE LET op == Head(opinions)
       IN IF unique_id(op) \notin seen
          THEN DedupeLoop(Tail(opinions), seen \cup {unique_id(op)}, Append(deduped, op))
          ELSE DedupeLoop(Tail(opinions), seen, deduped)

_dedupe(opinions) == DedupeLoop(opinions, {}, <<>>)

(***************************************************************************)
(* The rendered page.  A page holds tables, then links outside tables,     *)
(* then containers (elements whose tag is div, article, section or li),    *)
(* in document order.                                                      *)
(*   row        [th |-> has a th cell, cells |-> sequence of cells]        *)
(*   cell       [text |-> its text, href |-> the href of the link that     *)
(*               wraps the text, "" when the cell holds no link]           *)
(*   link       [href, text, ctx |-> the texts of its ancestors, parent    *)
(*               first]                                                    *)
(*   container  [cls |-> class attribute, text, href |-> the href of its   *)
(*               first link, "" for none, linktext]                        *)
(***************************************************************************)
CellTexts(cells) == [i \in DOMAIN cells |-> cells[i].text]

RowText(row) == CellTexts(row.cells)

TableText(table) == Concat([i \in DOMAIN table |-> RowText(table[i])])

ContainerText(c) == c.text

\* get_text() of the document: the outermost ancestor of every element.
PageText(page) ==
  Concat([t \in DOMAIN page.tables |-> TableText(page.tables[t])])
  \o [i \in DOMAIN page.links |-> page.links[i].text]
  \o Concat([c \in DOMAIN page.containers |-> ContainerText(page.containers[c])])

\* The links of the cells of row r of a table, in document order, each with
\* the texts of its ancestors td, tr, table.
RowLinks(table, r) ==
  LET cells == table[r].cells
      F[i \in 0..Len(cells)] ==
        IF i = 0 THEN <<>>
        ELSE IF cells[i].href # ""
             THEN Append(F[i - 1],
                         [href |-> cells[i].href, text |-> cells[i].text,
                          ctx |-> << <<cells[i].text>>, RowText(table[r]), TableText(table) >>])
             ELSE F[i - 1]
  IN F[Len(cells)]

TableLinks(table) == Concat([r \in DOMAIN table |-> RowLinks(table, r)])

ContainerLinks(c) ==
  IF c.href = "" THEN <<>>
  ELSE << [href |-> c.href, text |-> c.linktext, ctx |-> << c.text >>] >>

\* soup.find_all("a", href=True): every link, its ancestors ending with the
\* document.
AllLinks(page) ==
  LET links == Concat([t \in DOMAIN page.tables |-> TableLinks(page.tables[t])])
               \o page.links
               \o Concat([c \in DOMAIN page.containers |-> ContainerLinks(page.containers[c])])
  IN [i \in DOMAIN links |->
        [href |-> links[i].href, text |-> links[i].text,
         ctx |-> Append(links[i].ctx, PageText(page))]]

(***************************************************************************)
(* scraper.py: _parse_table_row                                            *)
(***************************************************************************)
\* The if/elif chain over one lower-cased header: the field it maps to.
HeaderField(h) ==
  IF (Contains(h, "case") /\ Contains(h, "number")) \/ h = "case no" \/ h = "case no."
    THEN "case_number"
  ELSE IF (Contains(h, "case") /\ Contains(h, "name")) \/ Contains(h, "style")
          \/ Contains(h, "caption") \/ Contains(h, "title")
    THEN "case_name"
  ELSE IF Contains(h, "date") \/ Contains(h, "disposition") \/ Contains(h, "filed")
          \/ Contains(h, "released")
    THEN "date"
  ELSE IF Contains(h, "type") THEN "opinion_type"
  ELSE IF Contains(h, "tribunal") \/ Contains(h, "lower") THEN "lower_tribunal"
  ELSE ""

\* col_map[field] after the loop over enumerate(headers): the last header
\* that maps to the field; 0 when the field is not in col_map.
ColMap(headers, field) ==
  LET hit == {i \in DOMAIN headers : HeaderField(headers[i]) = field}
  IN IF hit = {} THEN 0 ELSE CHOOSE i \in hit : \A j \in hit : j <= i

\* cell_texts[col_map[f]] if f in col_map and col_map[f] < len(cell_texts) else ""
MappedCell(cell_texts, headers, field) ==
  LET i == ColMap(headers, field)
  IN IF i # 0 /\ i <= Len(cell_texts) THEN cell_texts[i] ELSE ""

\* The fields read from the columns: by header when a header row was seen,
\* else by position when the row has at least 3 cells.
RowFields(cell_texts, headers) ==
  IF headers # <<>>
  THEN [case_number |-> MappedCell(cell_texts, headers, "case_number"),
        case_name |-> MappedCell(cell_texts, headers, "case_name"),
        date_str |-> MappedCell(cell_texts, headers, "date"),
        opinion_type |-> MappedCell(cell_texts, headers, "opinion_type"),
        lower_tribunal |-> MappedCell(cell_texts, headers, "lower_tribunal")]
  ELSE IF Len(cell_texts) >= 3
  THEN [case_number |-> cell_texts[1], case_name |-> cell_texts[2],
        date_str |-> cell_texts[3],
        opinion_type |-> IF Len(cell_texts) > 3 THEN cell_texts[4] ELSE "",
        lower_tribunal |-> ""]
  ELSE [case_number |-> "", case_name |-> "", date_str |-> "",
        opinion_type |-> "", lower_tribunal |-> ""]

RECURSIVE RowLinkLoop(_, _, _)
\* The loop over the links of the cells: acc is [pdf_url, case_name, case_number].
RowLinkLoop(cells, base_url, acc) ==
  IF cells = <<>> THEN acc
  ELSE LET c == Head(cells)
       IN IF c.href = "" THEN RowLinkLoop(Tail(cells), base_url, acc)
          ELSE RowLinkLoop(Tail(cells), base_url,
                 [pdf_url |-> IF IsDocHref(c.href) THEN urljoin(base_url, c.href)
                              ELSE acc.pdf_url,
                  case_name |-> IF acc.case_name = "" THEN c.text ELSE acc.case_name,
                  case_number |-> IF acc.case_number = "" THEN CaseSearchTok(c.text)
                                  ELSE acc.case_number])

\* A mutant of RowOpinion: the case name is left as it was read.
RowOpinionNoFallback(f, acc, case_number, court_id, config, page_url, now) ==
  IF case_number = "" THEN {}
  ELSE {Opinion(case_number, acc.case_name, court_id, config.name,
                DateOr(_parse_date(f.date_str), now),
                f.opinion_type, acc.pdf_url, page_url, f.lower_tribunal)}

\* The end of _parse_table_row: no case number gives None, else the Opinion.
\* Optional[Opinion] is {} (None) or {opinion}.
RowOpinion(f, acc, case_number, court_id, config, page_url, now) ==
  IF case_number = "" THEN {}
  ELSE {Opinion(case_number,
                IF acc.case_name # "" THEN acc.case_name ELSE case_number,
                court_id, config.name,
                DateOr(_parse_date(f.date_str), now),
                f.opinion_type, acc.pdf_url, page_url, f.lower_tribunal)}

\* if not case_number: the first cell text that holds a case number.
RowCaseNumber(acc, cell_texts) ==
  IF acc.case_number # "" THEN acc.case_number ELSE CaseSearch(cell_texts)

\* _parse_table_row once the columns are read into f.
RowFromFields(cells, cell_texts, f, court_id, config, page_url, now) ==
  LET acc == RowLinkLoop(cells, config.base_url,
                         [pdf_url |-> "", case_name |-> f.case_name,
                          case_number |-> f.case_number])
  IN RowOpinion(f, acc, RowCaseNumber(acc, cell_texts), court_id, config, page_url, now)

_parse_table_row(cells, headers, court_id, config, page_url, now) ==
  RowFromFields(cells, CellTexts(cells), RowFields(CellTexts(cells), headers),
                court_id, config, page_url, now)

(***************************************************************************)
(* scraper.py: _parse_pdf_link                                             *)
(***************************************************************************)
\* re.sub(r"\s+", " ", text)[:300]: the tokens of the model hold single
\* spaces only, and a joined text of more than 300 characters is cut.
Clip300(s) == IF Len(s) <= 300 THEN s ELSE "(the first 300 characters)"

RECURSIVE ContextNameLoop(_, _, _, _)
\* for _ in range(3): walk up the ancestors for a case name.
ContextNameLoop(ctx, n, case_number, case_name) ==
  IF n = 0 \/ ctx = <<>> THEN case_name
  ELSE LET context_text == JoinText(Head(ctx))
       IN ContextNameLoop(Tail(ctx), n - 1, case_number,
            IF case_name = "" /\ Len(context_text) > Len(case_number) + 5
            THEN Clip300(context_text) ELSE case_name)

RECURSIVE ContextDateLoop(_, _, _)
\* for ancestor in [parent] + list(parent.parents)[:5]: the first ancestor
\* whose text holds a date shape that parses gives the date.
ContextDateLoop(ctx, n, now) ==
  IF n = 0 \/ ctx = <<>> THEN now
  ELSE LET m == DateSearch(Head(ctx))
       IN IF m # "" /\ _parse_date(m) # {} THEN DateOr(_parse_date(m), now)
          ELSE ContextDateLoop(Tail(ctx), n - 1, now)

\* for source in [href, text]: the first that holds a case number.
LinkCaseNumber(link) ==
  IF CaseSearchTok(link.href) # "" THEN CaseSearchTok(link.href)
  ELSE CaseSearchTok(link.text)

\* _parse_pdf_link once the case number is known.
PdfLinkOpinion(link, case_number, case_name, court_id, config, page_url, now) ==
  IF case_number = "" THEN {}
  ELSE {Opinion(case_number,
                IF case_name # "" THEN case_name ELSE case_number,
                court_id, config.name,
                ContextDateLoop(link.ctx, 6, now),
                "", urljoin(config.base_url, link.href), page_url, "")}

PdfLinkWithNumber(link, case_number, court_id, config, page_url, now) ==
  PdfLinkOpinion(link, case_number,
                 ContextNameLoop(link.ctx, 3, case_number,
                   IF link.text # "" /\ link.text # case_number THEN link.text ELSE ""),
                 court_id, config, page_url, now)

_parse_pdf_link(link, court_id, config, page_url, now) ==
  PdfLinkWithNumber(link, LinkCaseNumber(link), court_id, config, page_url, now)

(***************************************************************************)
(* scraper.py: _parse_container                                            *)
(***************************************************************************)
ContainerOpinion(container, case_number, m, court_id, config, page_url, now) ==
  IF case_number = "" THEN {}
  ELSE {Opinion(case_number, Clip300(JoinText(container.text)),
                court_id, config.name,
                IF m # "" THEN DateOr(_parse_date(m), now) ELSE now,
                "",
                IF container.href # "" /\ ContainerLinkRe(container.href)
                THEN urljoin(config.base_url, container.href) ELSE "",
                page_url, "")}

_parse_container(container, court_id, config, page_url, now) ==
  ContainerOpinion(container, CaseSearch(container.text), DateSearch(container.text),
                   court_id, config, page_url, now)

(***************************************************************************)
(* scraper.py: _parse_case_link                                            *)
(***************************************************************************)
CaseLinkOpinion(link, case_number, full_url, is_pdf, court_id, config, page_url, now) ==
  IF case_number = "" THEN {}
  ELSE {Opinion(case_number,
                IF link.text # "" THEN link.text ELSE case_number,
                court_id, config.name, now, "",
                IF is_pdf THEN full_url ELSE "",
                IF ~is_pdf THEN full_url ELSE page_url, "")}

_parse_case_link(link, court_id, config, page_url, now) ==
  CaseLinkOpinion(link, CaseSearchTok(link.text), urljoin(config.base_url, link.href),
                  IsDocHref(link.href), court_id, config, page_url, now)

(***************************************************************************)
(* scraper.py: _parse_opinion_page                                         *)
(***************************************************************************)
\* opinions.append(opinion) for every opinion of the candidates (a sequence of
\* Optional[Opinion]) that is not None and is recent.
RecentOf(candidates, cutoff) ==
  LET F[i \in 0..Len(candidates)] ==
        IF i = 0 THEN <<>>
        ELSE IF candidates[i] # {} /\ _is_recent(Some(candidates[i]), cutoff)
             THEN Append(F[i - 1], Some(candidates[i]))
             ELSE F[i - 1]
  IN F[Len(candidates)]

RECURSIVE TableRowLoop(_, _, _, _, _, _)
\* for row in rows: a row with a th sets the headers and is skipped, a row of
\* fewer than 2 cells is skipped, the others are parsed.
TableRowLoop(rows, headers, court_id, config, page_url, now) ==
  IF rows = <<>> THEN <<>>
  ELSE LET row == Head(rows)
       IN IF row.th
          THEN TableRowLoop(Tail(rows), [i \in DOMAIN row.cells |-> Lower(row.cells[i].text)],
                            court_id, config, page_url, now)
          ELSE IF Len(row.cells) < 2
          THEN TableRowLoop(Tail(rows), headers, court_id, config, page_url, now)
          ELSE << _parse_table_row(row.cells, headers, court_id, config, page_url, now) >>
               \o TableRowLoop(Tail(rows), headers, court_id, config, page_url, now)

\* Strategy 1: the candidates of all tables.
TableCandidates(page, court_id, config, page_url, now) ==
  Concat([t \in DOMAIN page.tables |->
            TableRowLoop(page.tables[t], <<>>, court_id, config, page_url, now)])

\* Strategy 2: the candidates of the links to PDFs and downloads.
PdfLinkCandidates(page, court_id, config, page_url, now) ==
  LET pdf_links == SelectSeq(AllLinks(page), LAMBDA l : PdfLinkRe(l.href))
  IN [i \in DOMAIN pdf_links |-> _parse_pdf_link(pdf_links[i], court_id, config, page_url, now)]

\* Strategy 3: the candidates of the containers whose class matches.
ContainerCandidates(page, court_id, config, page_url, now) ==
  LET containers == SelectSeq(page.containers, LAMBDA c : ContainerClassRe(c.cls))
  IN [i \in DOMAIN containers |-> _parse_container(containers[i], court_id, config, page_url, now)]

\* Strategy 4: the candidates of the links whose text holds a case number.
CaseLinkCandidates(page, court_id, config, page_url, now) ==
  LET all_links == SelectSeq(AllLinks(page), LAMBDA l : CaseSearchTok(l.text) # "")
  IN [i \in DOMAIN all_links |-> _parse_case_link(all_links[i], court_id, config, page_url, now)]

\* The cascade from strategy 4 on, given the recent opinions s4 it parsed.
CascadeFrom4(s4) ==
  IF s4 # <<>>
  THEN [opinions |-> _dedupe(s4), ran |-> <<"table", "pdf_link", "container", "case_link">>]
  ELSE [opinions |-> <<>>,
        ran |-> <<"table", "pdf_link", "container", "case_link", "text_search">>]

CascadeFrom3(s3, page, court_id, config, page_url, now, cutoff) ==
  IF s3 # <<>>
  THEN [opinions |-> _dedupe(s3), ran |-> <<"table", "pdf_link", "container">>]
  ELSE CascadeFrom4(RecentOf(CaseLinkCandidates(page, court_id, config, page_url, now), cutoff))

CascadeFrom2(s2, page, court_id, config, page_url, now, cutoff) ==
  IF s2 # <<>>
  THEN [opinions |-> _dedupe(s2), ran |-> <<"table", "pdf_link">>]
  ELSE CascadeFrom3(RecentOf(ContainerCandidates(page, court_id, config, page_url, now), cutoff),
                    page, court_id, config, page_url, now, cutoff)

CascadeFrom1(s1, page, court_id, config, page_url, now, cutoff) ==
  IF s1 # <<>>
  THEN [opinions |-> _dedupe(s1), ran |-> <<"table">>]
  ELSE CascadeFrom2(RecentOf(PdfLinkCandidates(page, court_id, config, page_url, now), cutoff),
                    page, court_id, config, page_url, now, cutoff)

\* A mutant of _parse_opinion_page: every strategy runs and the results are merged.
ParseAllStrategies(page, court_id, config, page_url, now, cutoff) ==
  [opinions |->
     _dedupe(RecentOf(TableCandidates(page, court_id, config, page_url, now), cutoff)
             \o RecentOf(PdfLinkCandidates(page, court_id, config, page_url, now), cutoff)
             \o RecentOf(ContainerCandidates(page, court_id, config, page_url, now), cutoff)
             \o RecentOf(CaseLinkCandidates(page, court_id, config, page_url, now), cutoff)),
   ran |-> <<"table", "pdf_link", "container", "case_link">>]

\* The cascade: each strategy runs only when the ones before it gave no recent
\* opinion.  The result is the list returned and the strategies that were run,
\* in order.
_parse_opinion_page(page, court_id, config, page_url, now, cutoff) ==
  CascadeFrom1(RecentOf(TableCandidates(page, court_id, config, page_url, now), cutoff),
               page, court_id, config, page_url, now, cutoff)

(***************************************************************************)
(* scraper.py: extract_pdf_text.  A download is [ok |-> the request         *)
(* succeeded with Content-Type application/pdf and the file was read,       *)
(* pages |-> the lengths of the texts extract_text() gives for the pages];  *)
(* the page texts of the model carry no outer white space.  The result is   *)
(* the length of the text returned.                                         *)
(***************************************************************************)
MAX_PAGES == 30

extract_pdf_text(opinion, download) ==
  IF opinion.pdf_url = "" THEN 0
  ELSE IF ~download.ok THEN 0
  ELSE LET pages == download.pages
           pages_to_read == IF Len(pages) < MAX_PAGES THEN Len(pages) ELSE MAX_PAGES
           T[i \in 0..pages_to_read] ==
             IF i = 0 THEN 0
             ELSE IF pages[i] > 0 THEN T[i - 1] + pages[i] + 2 ELSE T[i - 1]
       IN IF T[pages_to_read] = 0 THEN 0 ELSE T[pages_to_read] - 2

(***************************************************************************)
(* summarizer.py: summarize_opinion.  api is the outcome of the            *)
(* messages.create call: "ok" or "error".                                  *)
(***************************************************************************)
\* A mutant of summarize_opinion: a failed API call gives no summary.
SummarizeOpinionNoPlaceholder(opinion, api) ==
  IF opinion.text_content = 0
  THEN "[" \o opinion.court_name \o "] " \o opinion.case_number
       \o " - No opinion text available for summarization."
  ELSE IF api = "ok" THEN "Summary of " \o opinion.case_number
  ELSE ""

summarize_opinion(opinion, api) ==
  IF opinion.text_content = 0
  THEN "[" \o opinion.court_name \o "] " \o opinion.case_number
       \o " - No opinion text available for summarization."
  ELSE IF api = "ok" THEN "Summary of " \o opinion.case_number
  ELSE "Summary unavailable for " \o opinion.case_number \o "."

(***************************************************************************)
(* The inputs: rendered pages, PDF downloads, command lines.               *)
(***************************************************************************)
Cell(text) == [text |-> text, href |-> ""]

LinkCell(text, href) == [text |-> text, href |-> href]

HeaderRow ==
  [th |-> TRUE, cells |-> << Cell("Case Number"), Cell("Case Name"), Cell("Date") >>]

RowRecent ==
  [th |-> FALSE, cells |-> << Cell("SC2024-123"), Cell("Smith v. Jones"), Cell("01/15/2024") >>]

RowBoundary ==
  [th |-> FALSE, cells |-> << Cell("2024-456"), Cell("Doe v. State"), Cell("01/11/2024") >>]

RowOld ==
  [th |-> FALSE, cells |-> << Cell("SC2024-124"), Cell("Doe v. State"), Cell("01/05/2024") >>]

\* An old case whose number links to its docket page.
RowOldLinked ==
  [th |-> FALSE,
   cells |-> << LinkCell("SC2024-123", "/case/77"), Cell("Smith v. Jones"), Cell("01/05/2024") >>]

\* The case of RowRecent again, with another name and no date.
RowUndated ==
  [th |-> FALSE, cells |-> << Cell("SC2024-123"), Cell("Doe v. State"), Cell("TBD") >>]

RowRecentPdf ==
  [th |-> FALSE,
   cells |-> << LinkCell("SC2024-123", "/opinions/SC2024-123.pdf"), Cell("Smith v. Jones"),
                Cell("01/15/2024") >>]

\* An old case with a download link, its date written with hyphens.
RowOldPdf ==
  [th |-> FALSE,
   cells |-> << LinkCell("SC2024-124", "/download/9981"), Cell("Doe v. State"),
                Cell("01-05-2024") >>]

\* The data rows of the tables a single parse is checked on.
DataRows == {RowRecent, RowOld, RowOldLinked, RowUndated, RowOldPdf}

\* A table is a sequence of rows: an optional header row, then data rows.
Tables ==
  LET bodies == SeqsUpTo(DataRows, MaxRows)
  IN bodies \cup {<<HeaderRow>> \o b : b \in bodies}

LinkPdf ==
  [href |-> "/opinions/SC2024-123.pdf", text |-> "Opinion",
   ctx |-> << <<"Opinion">>, <<"Opinion", "January 15, 2024">> >>]

LinkCase ==
  [href |-> "/case/77", text |-> "SC2024-123 Smith v. Jones",
   ctx |-> << <<"SC2024-123 Smith v. Jones">> >>]

ContainerRecent ==
  [cls |-> "views-row", text |-> <<"2024-456", "Doe v. State", "01/15/2024">>,
   href |-> "", linktext |-> ""]

ContainerOld ==
  [cls |-> "opinion-item", text |-> <<"SC2024-124", "Doe v. State", "01/05/2024">>,
   href |-> "/download/9981", linktext |-> "Doe v. State"]

\* The pages a single parse is checked on.
Pages ==
  {[tables |-> t, links |-> l, containers |-> c] :
     t \in {<<>>} \cup {<<tb>> : tb \in Tables \ {<<>>}},
     l \in {<<>>, <<LinkPdf>>, <<LinkCase>>},
     c \in {<<>>, <<ContainerRecent>>, <<ContainerOld>>}}

TablePage(rows) == [tables |-> <<rows>>, links |-> <<>>, containers |-> <<>>]

NoPage == [tables |-> <<>>, links |-> <<>>, containers |-> <<>>]

\* The pages a court's URL serves in a run of main.
MainPages ==
  {NoPage,
   TablePage(<<HeaderRow, RowRecentPdf>>),
   TablePage(<<HeaderRow, RowRecent, RowUndated>>),
   TablePage(<<HeaderRow, RowOld>>),
   TablePage(<<HeaderRow, RowOldLinked>>),
   TablePage(<<HeaderRow, RowBoundary, RowOldPdf>>)}

\* The text lengths of a PDF's pages; 0 is a page without text (a scan).
PdfPageLens == {0, 9000}

\* A download fails, or gives a PDF of MaxPdfPages pages of equal text length.
PdfDownloads ==
  {[ok |-> FALSE, pages |-> <<>>]}
  \cup {[ok |-> TRUE, pages |-> [i \in 1..MaxPdfPages |-> len]] : len \in PdfPageLens}

\* The values given to --lookback (the default is LOOKBACK_DAYS).
LookbackArgs == {LOOKBACK_DAYS, 14}

\* The unique ids a state file may hold before the run.
SeenBefore == {"florida_supreme_court:SC2024-123"}

(***************************************************************************)
(* The state.                                                              *)
(***************************************************************************)
VARIABLES
  now,             \* datetime.now(), in days
  args,            \* the parsed command line: [lookback, no_summarize]
  module_globals,  \* the value bound to the name LOOKBACK_DAYS in each module
  pc,              \* where main is
  cutoff_date,     \* FloridaCourtScraper.cutoff_date: {} before construction
  construct_time,  \* the datetime.now() that __init__ read
  court_i,         \* scrape_all_courts: position in COURTS.items()
  url_i,           \* _scrape_court: position in urls_to_try
  all_opinions,    \* the list scrape_all_courts builds; main's opinions and
                   \* all_feed_opinions are the same list object
  court_log,       \* per court processed: did it raise, what _scrape_court returned
  lastPage,        \* the page of the last _parse_opinion_page call
  lastParse,       \* what that call returned, and the strategies it ran
  loads,           \* _scrape_court: the page loads made for the court, in order
  new_opinions,    \* main's new_opinions: positions in all_opinions (the same objects)
  state_file,      \* the seen_ids held by the state file
  saves,           \* calls of save_seen_opinions
  sum_i,           \* summarize_opinions: position in its list
  summarizer_calls,\* calls of summarize_all
  feed_calls,      \* the lists generate_feed was called with
  dedupe_in,       \* the argument of a call of _dedupe
  dedupe_out,      \* what the call returned
  date_in,         \* the strings given to _parse_date, one call each
  date_out,        \* what the calls made so far returned
  row_in,          \* a table of one data row and a permutation of its columns
  row_out,         \* what the table strategy parsed from the table, and from
                   \* the table with its columns permuted
  run_log          \* per run of main on the state file, this one last: the seen
                   \* ids the run found, the calls of summarize_all before it,
                   \* the unique ids it passed to summarize_all

\* The variables of the calls of single functions.
pureVars == << dedupe_in, dedupe_out, date_in, date_out, row_in, row_out, run_log >>

vars ==
  << now, args, module_globals, pc, cutoff_date, construct_time, court_i, url_i,
     all_opinions, court_log, lastPage, lastParse, loads, new_opinions, state_file,
     saves, sum_i, summarizer_calls, feed_calls, pureVars >>

\* No table was given to the table strategy.
NoRow == [table |-> <<>>, perm |-> <<>>]

NoParse == [opinions |-> <<>>, ran |-> <<>>]

\* After the imports of main.py: config defines LOOKBACK_DAYS, and the
\* "from config import LOOKBACK_DAYS" of scraper.py and of main.py each bind
\* the value to a name of their own.
Init ==
  /\ now = FirstNow
  /\ args \in [lookback : LookbackArgs, no_summarize : BOOLEAN]
  /\ module_globals = [config |-> LOOKBACK_DAYS, scraper |-> LOOKBACK_DAYS,
                       main |-> LOOKBACK_DAYS]
  /\ pc = "start"
  /\ cutoff_date = {}
  /\ construct_time = now
  /\ court_i = 1
  /\ url_i = 1
  /\ all_opinions = <<>>
  /\ court_log = <<>>
  /\ lastPage = NoPage
  /\ lastParse = NoParse
  /\ loads = <<>>
  /\ new_opinions = <<>>
  /\ state_file \in SUBSET SeenBefore
  /\ saves = 0
  /\ sum_i = 1
  /\ summarizer_calls = 0
  /\ feed_calls = <<>>
  /\ dedupe_in = <<>>
  /\ dedupe_out = <<>>
  /\ date_in = <<>>
  /\ date_out = <<>>
  /\ row_in = NoRow
  /\ row_out = <<>>
  /\ run_log = <<>>

(***************************************************************************)
(* main.py: main, up to the call of scrape_opinions                        *)
(***************************************************************************)
\* if args.lookback != LOOKBACK_DAYS: import config; config.LOOKBACK_DAYS = args.lookback
OverrideLookback ==
  /\ pc = "start"
  /\ module_globals' =
       IF args.lookback # module_globals.main
       THEN [module_globals EXCEPT !.config = args.lookback]
       ELSE module_globals
  /\ pc' = "scrape_opinions"
  /\ UNCHANGED << now, args, cutoff_date, construct_time, court_i, url_i, all_opinions,
                  court_log, lastPage, lastParse, loads, new_opinions, state_file, saves,
                  sum_i, summarizer_calls, feed_calls, pureVars >>

(***************************************************************************)
(* scraper.py: scrape_opinions, FloridaCourtScraper.__init__,              *)
(* scrape_all_courts, _scrape_court                                        *)
(***************************************************************************)
\* self.cutoff_date = datetime.now() - timedelta(days=LOOKBACK_DAYS), with the
\* LOOKBACK_DAYS of scraper.py's own globals.
ConstructScraper ==
  /\ pc = "scrape_opinions"
  /\ cutoff_date' = {now - module_globals.scraper}
  /\ construct_time' = now
  /\ pc' = "courts"
  /\ UNCHANGED << now, args, module_globals, court_i, url_i, all_opinions, court_log,
                  lastPage, lastParse, loads, new_opinions, state_file, saves, sum_i,
                  summarizer_calls, feed_calls, pureVars >>

\* urls_to_try of _scrape_court: recent, archive, main.
urls_to_try(config) == << config.recent_url, config.archive_url, config.opinions_url >>

\* The clock advances while the courts are scraped (page loads, time.sleep).
Tick ==
  /\ pc = "courts"
  /\ now < MaxNow
  /\ now' = now + 1
  /\ UNCHANGED << args, module_globals, pc, cutoff_date, construct_time, court_i, url_i,
                  all_opinions, court_log, lastPage, lastParse, loads, new_opinions,
                  state_file, saves, sum_i, summarizer_calls, feed_calls, pureVars >>

\* A mutant of CourtReturns: a court returns only the cases that no earlier
\* court returned.
CourtReturnsNewCasesOnly(opinions) ==
  /\ all_opinions' =
       all_opinions \o SelectSeq(opinions, LAMBDA o :
                                  \A i \in DOMAIN all_opinions :
                                    all_opinions[i].case_number # o.case_number)
  /\ court_log' =
       Append(court_log,
              [court_id |-> Courts[court_i].court_id, raised |-> FALSE,
               returned |-> SelectSeq(opinions, LAMBDA o :
                                      \A i \in DOMAIN all_opinions :
                                        all_opinions[i].case_number # o.case_number)])
  /\ court_i' = court_i + 1
  /\ url_i' = 1

\* _scrape_court returns opinions to scrape_all_courts, which extends
\* all_opinions and goes on to the next court.
CourtReturns(opinions) ==
  /\ all_opinions' = all_opinions \o opinions
  /\ court_log' = Append(court_log, [court_id |-> Courts[court_i].court_id,
                                     raised |-> FALSE, returned |-> opinions])
  /\ court_i' = court_i + 1
  /\ url_i' = 1

\* The loads of the court with one more: the first URL starts the list anew.
Logged(load) == IF url_i = 1 THEN <<load>> ELSE Append(loads, load)

\* One iteration of the loop of _scrape_court in which the page loads: the
\* rendered page is parsed; a non-empty list is returned, an empty one moves to
\* the next URL, and after the last URL _scrape_court returns [].
\* What _scrape_court does with the list parsed from the page of its current URL.
\* A mutant of AfterPage: the loop goes on to the next URL also after a page
\* that gave opinions, and returns what the last URL gave.
AfterPageTriesAllUrls(opinions) ==
  IF url_i < Len(urls_to_try(Courts[court_i]))
    THEN /\ url_i' = url_i + 1
         /\ UNCHANGED << all_opinions, court_log, court_i >>
  ELSE CourtReturns(opinions)

AfterPage(opinions) ==
  IF opinions # <<>> THEN CourtReturns(opinions)
  ELSE IF url_i < Len(urls_to_try(Courts[court_i]))
    THEN /\ url_i' = url_i + 1
         /\ UNCHANGED << all_opinions, court_log, court_i >>
  ELSE CourtReturns(<<>>)

\* A mutant of LoadPage: the page is parsed with the first court's entry.
LoadPageFirstConfig ==
  /\ pc = "courts"
  /\ court_i <= Len(Courts)
  /\ \E page \in MainPages :
       /\ lastPage' = page
       /\ lastParse' = _parse_opinion_page(page, Courts[court_i].court_id, Courts[1],
                                           urls_to_try(Courts[court_i])[url_i], now,
                                           Some(cutoff_date))
       /\ loads' = Logged([court_id |-> Courts[court_i].court_id,
                            url |-> urls_to_try(Courts[court_i])[url_i],
                            raised |-> FALSE, opinions |-> lastParse'.opinions])
       /\ AfterPage(lastParse'.opinions)
  /\ UNCHANGED << now, args, module_globals, pc, cutoff_date, construct_time,
                  new_opinions, state_file, saves, sum_i, summarizer_calls, feed_calls, pureVars >>

\* One iteration of the loop of _scrape_court in which the page loads and is
\* parsed.
LoadPage ==
  /\ pc = "courts"
  /\ court_i <= Len(Courts)
  /\ \E page \in MainPages :
       /\ lastPage' = page
       /\ lastParse' = _parse_opinion_page(page, Courts[court_i].court_id, Courts[court_i],
                                           urls_to_try(Courts[court_i])[url_i], now,
                                           Some(cutoff_date))
       /\ loads' = Logged([court_id |-> Courts[court_i].court_id,
                            url |-> urls_to_try(Courts[court_i])[url_i],
                            raised |-> FALSE, opinions |-> lastParse'.opinions])
       /\ AfterPage(lastParse'.opinions)
  /\ UNCHANGED << now, args, module_globals, pc, cutoff_date, construct_time,
                  new_opinions, state_file, saves, sum_i, summarizer_calls, feed_calls, pureVars >>

\* One iteration in which _scrape_page_with_playwright raises (page.goto times
\* out): _scrape_court logs a warning and moves to the next URL.
PageFails ==
  /\ pc = "courts"
  /\ court_i <= Len(Courts)
  /\ lastPage' = NoPage
  /\ lastParse' = NoParse
  /\ loads' = Logged([court_id |-> Courts[court_i].court_id,
                       url |-> urls_to_try(Courts[court_i])[url_i],
                       raised |-> TRUE, opinions |-> <<>>])
  /\ AfterPage(<<>>)
  /\ UNCHANGED << now, args, module_globals, pc, cutoff_date, construct_time,
                  new_opinions, state_file, saves, sum_i, summarizer_calls, feed_calls, pureVars >>

\* A mutant of CourtRaises: the exception ends the loop over the courts.
CourtRaisesAborts ==
  /\ pc = "courts"
  /\ court_i <= Len(Courts)
  /\ court_log' = Append(court_log, [court_id |-> Courts[court_i].court_id,
                                     raised |-> TRUE, returned |-> <<>>])
  /\ court_i' = Len(Courts) + 1
  /\ url_i' = 1
  /\ lastPage' = NoPage
  /\ lastParse' = NoParse
  /\ loads' = <<>>
  /\ UNCHANGED << now, args, module_globals, pc, cutoff_date, construct_time,
                  all_opinions, new_opinions, state_file, saves, sum_i,
                  summarizer_calls, feed_calls, pureVars >>

\* An exception leaves _scrape_court: scrape_all_courts logs the error and
\* goes on to the next court.
CourtRaises ==
  /\ pc = "courts"
  /\ court_i <= Len(Courts)
  /\ court_log' = Append(court_log, [court_id |-> Courts[court_i].court_id,
                                     raised |-> TRUE, returned |-> <<>>])
  /\ court_i' = court_i + 1
  /\ url_i' = 1
  /\ lastPage' = NoPage
  /\ lastParse' = NoParse
  /\ loads' = <<>>
  /\ UNCHANGED << now, args, module_globals, pc, cutoff_date, construct_time,
                  all_opinions, new_opinions, state_file, saves, sum_i,
                  summarizer_calls, feed_calls, pureVars >>

\* The loop over the courts is over: scrape_all_courts returns all_opinions.
ReturnAll ==
  /\ pc = "courts"
  /\ court_i > Len(Courts)
  /\ pc' = "scraped"
  /\ lastPage' = NoPage
  /\ lastParse' = NoParse
  /\ loads' = <<>>
  /\ UNCHANGED << now, args, module_globals, cutoff_date, construct_time, court_i, url_i,
                  all_opinions, court_log, new_opinions, state_file, saves, sum_i,
                  summarizer_calls, feed_calls, pureVars >>

(***************************************************************************)
(* main.py: main, after scrape_opinions                                    *)
(***************************************************************************)
\* load_seen_opinions
load_seen_opinions(file) == file

\* A mutant of NewPositions: every opinion counts as new.
NewPositionsAll(opinions, seen_ids) == [i \in DOMAIN opinions |-> i]

\* [o for o in opinions if o.unique_id not in seen_ids], as positions
NewPositions(opinions, seen_ids) ==
  LET F[i \in 0..Len(opinions)] ==
        IF i = 0 THEN <<>>
        ELSE IF unique_id(opinions[i]) \notin seen_ids THEN Append(F[i - 1], i)
        ELSE F[i - 1]
  IN F[Len(opinions)]

\* A mutant of DedupeSeen: main returns at once when nothing was scraped.
DedupeSeenReturnsEarly ==
  /\ pc = "scraped"
  /\ IF all_opinions = <<>>
     THEN /\ pc' = "done"
          /\ UNCHANGED << new_opinions, state_file, saves >>
     ELSE /\ new_opinions' = NewPositions(all_opinions, load_seen_opinions(state_file))
          /\ state_file' = load_seen_opinions(state_file)
                             \cup {unique_id(all_opinions[i]) : i \in DOMAIN all_opinions}
          /\ saves' = saves + 1
          /\ pc' = "summarize"
  /\ UNCHANGED << now, args, module_globals, cutoff_date, construct_time, court_i, url_i,
                  all_opinions, court_log, lastPage, lastParse, loads, sum_i,
                  summarizer_calls, feed_calls, pureVars >>

\* Step 2 of main: the new opinions, the seen ids updated and saved.
DedupeSeen ==
  /\ pc = "scraped"
  /\ LET seen_ids == load_seen_opinions(state_file)
     IN /\ new_opinions' = NewPositions(all_opinions, seen_ids)
        /\ state_file' = seen_ids \cup {unique_id(all_opinions[i]) : i \in DOMAIN all_opinions}
  /\ saves' = saves + 1
  /\ pc' = "summarize"
  /\ UNCHANGED << now, args, module_globals, cutoff_date, construct_time, court_i, url_i,
                  all_opinions, court_log, lastPage, lastParse, loads, sum_i,
                  summarizer_calls, feed_calls, pureVars >>

\* Step 3 is skipped: --no-summarize, no new opinions, or no API key.
SkipSummarize ==
  /\ pc = "summarize"
  /\ \E api_key \in BOOLEAN : args.no_summarize \/ new_opinions = <<>> \/ ~api_key
  /\ pc' = "merge"
  /\ UNCHANGED << now, args, module_globals, cutoff_date, construct_time, court_i, url_i,
                  all_opinions, court_log, lastPage, lastParse, loads, new_opinions, state_file,
                  saves, sum_i, summarizer_calls, feed_calls, pureVars >>

\* summarize_all is called and summarize_opinions starts its loop.
StartSummarize ==
  /\ pc = "summarize"
  /\ ~args.no_summarize
  /\ new_opinions # <<>>
  /\ summarizer_calls' = summarizer_calls + 1
  /\ sum_i' = 1
  /\ pc' = "summarizing"
  /\ UNCHANGED << now, args, module_globals, cutoff_date, construct_time, court_i, url_i,
                  all_opinions, court_log, lastPage, lastParse, loads, new_opinions, state_file,
                  saves, feed_calls, pureVars >>

\* summarize_all raises before the loop (the client cannot be built): main
\* logs the error and continues without summaries.
SummarizeAllRaises ==
  /\ pc = "summarize"
  /\ ~args.no_summarize
  /\ new_opinions # <<>>
  /\ summarizer_calls' = summarizer_calls + 1
  /\ pc' = "merge"
  /\ UNCHANGED << now, args, module_globals, cutoff_date, construct_time, court_i, url_i,
                  all_opinions, court_log, lastPage, lastParse, loads, new_opinions, state_file,
                  saves, sum_i, feed_calls, pureVars >>

\* A mutant of SummarizedOpinion: the summary is stored in the wrong field.
SummarizedOpinionWrongField(opinion, download, api) ==
  [opinion EXCEPT !.opinion_type = summarize_opinion(opinion, api)]

\* The body of the loop of summarize_opinions for one opinion.
SummarizedOpinion(opinion, download, api) ==
  LET with_text == IF opinion.text_content = 0 /\ opinion.pdf_url # ""
                   THEN [opinion EXCEPT !.text_content = extract_pdf_text(opinion, download)]
                   ELSE opinion
  IN [with_text EXCEPT !.summary = summarize_opinion(with_text, api)]

SummarizeOne ==
  /\ pc = "summarizing"
  /\ sum_i <= Len(new_opinions)
  /\ \E download \in PdfDownloads, api \in {"ok", "error"} :
       all_opinions' =
         [all_opinions EXCEPT ![new_opinions[sum_i]] =
            SummarizedOpinion(all_opinions[new_opinions[sum_i]], download, api)]
  /\ sum_i' = sum_i + 1
  /\ UNCHANGED << now, args, module_globals, pc, cutoff_date, construct_time, court_i,
                  url_i, court_log, lastPage, lastParse, loads, new_opinions, state_file, saves,
                  summarizer_calls, feed_calls, pureVars >>

\* summarize_opinions returns its list, which main binds to new_opinions again.
FinishSummarize ==
  /\ pc = "summarizing"
  /\ sum_i > Len(new_opinions)
  /\ pc' = "merge"
  /\ UNCHANGED << now, args, module_globals, cutoff_date, construct_time, court_i, url_i,
                  all_opinions, court_log, lastPage, lastParse, loads, new_opinions, state_file,
                  saves, sum_i, summarizer_calls, feed_calls, pureVars >>

\* summary_map = {o.unique_id: o.summary for o in new_opinions if o.summary}:
\* the summary of the last new opinion with the id and a non-empty summary.
summary_map(opinions, new) ==
  LET hits(uid) == {k \in DOMAIN new : /\ unique_id(opinions[new[k]]) = uid
                                       /\ opinions[new[k]].summary # ""}
      ids == {unique_id(opinions[new[k]]) : k \in {j \in DOMAIN new : opinions[new[j]].summary # ""}}
  IN [uid \in ids |->
        opinions[new[CHOOSE k \in hits(uid) : \A j \in hits(uid) : j <= k]].summary]

\* The summaries of the new opinions are applied to the opinions of the feed.
MergeSummaries ==
  /\ pc = "merge"
  /\ LET map == summary_map(all_opinions, new_opinions)
     IN all_opinions' =
          [i \in DOMAIN all_opinions |->
             IF unique_id(all_opinions[i]) \in DOMAIN map
             THEN [all_opinions[i] EXCEPT !.summary = map[unique_id(all_opinions[i])]]
             ELSE all_opinions[i]]
  /\ pc' = "feed"
  /\ UNCHANGED << now, args, module_globals, cutoff_date, construct_time, court_i, url_i,
                  court_log, lastPage, lastParse, loads, new_opinions, state_file, saves, sum_i,
                  summarizer_calls, feed_calls, pureVars >>

\* Step 4: generate_feed(all_feed_opinions, ...).
GenerateFeed ==
  /\ pc = "feed"
  /\ feed_calls' = Append(feed_calls, all_opinions)
  /\ pc' = "done"
  /\ UNCHANGED << now, args, module_globals, cutoff_date, construct_time, court_i, url_i,
                  all_opinions, court_log, lastPage, lastParse, loads, new_opinions, state_file,
                  saves, sum_i, summarizer_calls, pureVars >>

Next ==
  \/ OverrideLookback
  \/ ConstructScraper
  \/ Tick
  \/ LoadPage
  \/ PageFails
  \/ CourtRaises
  \/ ReturnAll
  \/ DedupeSeen
  \/ SkipSummarize
  \/ StartSummarize
  \/ SummarizeAllRaises
  \/ SummarizeOne
  \/ FinishSummarize
  \/ MergeSummaries
  \/ GenerateFeed

\* One run of main.
Spec == Init /\ [][Next]_vars

\* A run of main up to the return of scrape_all_courts.
NextCourts ==
  \/ OverrideLookback
  \/ ConstructScraper
  \/ Tick
  \/ LoadPage
  \/ PageFails
  \/ CourtRaises
  \/ ReturnAll

SpecCourts == Init /\ [][NextCourts]_vars

(***************************************************************************)
(* A constructed scraper parsing one rendered page.                        *)
(***************************************************************************)
InitPage ==
  /\ now = FirstNow
  /\ args = [lookback |-> LOOKBACK_DAYS, no_summarize |-> TRUE]
  /\ module_globals = [config |-> LOOKBACK_DAYS, scraper |-> LOOKBACK_DAYS,
                       main |-> LOOKBACK_DAYS]
  /\ pc = "page"
  /\ cutoff_date = {now - LOOKBACK_DAYS}
  /\ construct_time = now
  /\ court_i = 1
  /\ url_i = 1
  /\ all_opinions = <<>>
  /\ court_log = <<>>
  /\ lastPage = NoPage
  /\ lastParse = NoParse
  /\ loads = <<>>
  /\ new_opinions = <<>>
  /\ state_file = {}
  /\ saves = 0
  /\ sum_i = 1
  /\ summarizer_calls = 0
  /\ feed_calls = <<>>
  /\ dedupe_in = <<>>
  /\ dedupe_out = <<>>
  /\ date_in = <<>>
  /\ date_out = <<>>
  /\ row_in = NoRow
  /\ row_out = <<>>
  /\ run_log = <<>>

\* _parse_opinion_page on a page of some court.
ParsePage ==
  /\ pc = "page"
  /\ pc' = "parsed"
  /\ \E page \in Pages, c \in DOMAIN Courts :
       /\ court_i' = c
       /\ lastPage' = page
       /\ lastParse' = _parse_opinion_page(page, Courts[c].court_id, Courts[c],
                                           urls_to_try(Courts[c])[url_i], now,
                                           Some(cutoff_date))
  /\ UNCHANGED << now, args, module_globals, cutoff_date, construct_time, url_i,
                  all_opinions, court_log, loads, new_opinions, state_file, saves, sum_i,
                  summarizer_calls, feed_calls, pureVars >>

\* Time passes between the construction of the scraper and the parse.
TickPage ==
  /\ pc = "page"
  /\ now < MaxNow
  /\ now' = now + 1
  /\ UNCHANGED << args, module_globals, pc, cutoff_date, construct_time, court_i, url_i,
                  all_opinions, court_log, lastPage, lastParse, loads, new_opinions,
                  state_file, saves, sum_i, summarizer_calls, feed_calls, pureVars >>

NextPage == ParsePage \/ TickPage

SpecPage == InitPage /\ [][NextPage]_vars

(***************************************************************************)
(* A constructed scraper parsing a page whose elements lack a case number  *)
(* or a case name.                                                         *)
(***************************************************************************)
RowNameless ==
  [th |-> FALSE, cells |-> << Cell("SC2024-123"), Cell(""), Cell("01/15/2024") >>]

RowNumberless ==
  [th |-> FALSE, cells |-> << Cell(""), Cell("Smith v. Jones"), Cell("01/15/2024") >>]

RowBlank ==
  [th |-> FALSE, cells |-> << Cell(""), Cell(""), Cell("01/15/2024") >>]

SparseRows == {RowNameless, RowNumberless, RowBlank}

\* A PDF link without text, alone in its parent.
LinkBare ==
  [href |-> "/opinions/SC2024-123.pdf", text |-> "", ctx |-> << <<"">> >>]

\* A download link whose href and text hold no case number.
LinkNumberless ==
  [href |-> "/download/9981", text |-> "Opinion", ctx |-> << <<"Opinion">> >>]

\* A docket link whose text is the case number only.
LinkNumberOnly ==
  [href |-> "/case/77", text |-> "SC2024-123", ctx |-> << <<"SC2024-123">> >>]

ContainerNumberless ==
  [cls |-> "views-row", text |-> <<"Doe v. State", "01/15/2024">>,
   href |-> "", linktext |-> ""]

ContainerNumberOnly ==
  [cls |-> "search-result", text |-> <<"SC2024-124">>, href |-> "", linktext |-> ""]

SparsePages ==
  LET bodies == SeqsUpTo(SparseRows, MaxRows) \ {<<>>}
  IN {[tables |-> t, links |-> l, containers |-> c] :
        t \in {<<>>} \cup {<<b>> : b \in bodies} \cup {<< <<HeaderRow>> \o b >> : b \in bodies},
        l \in {<<>>, <<LinkBare>>, <<LinkNumberless>>, <<LinkNumberOnly>>},
        c \in {<<>>, <<ContainerNumberless>>, <<ContainerNumberOnly>>}}

\* _parse_opinion_page on such a page of some court.
ParseSparsePage ==
  /\ pc = "page"
  /\ pc' = "parsed"
  /\ \E page \in SparsePages, c \in DOMAIN Courts :
       /\ court_i' = c
       /\ lastPage' = page
       /\ lastParse' = _parse_opinion_page(page, Courts[c].court_id, Courts[c],
                                           urls_to_try(Courts[c])[url_i], now,
                                           Some(cutoff_date))
  /\ UNCHANGED << now, args, module_globals, cutoff_date, construct_time, url_i,
                  all_opinions, court_log, loads, new_opinions, state_file, saves, sum_i,
                  summarizer_calls, feed_calls, pureVars >>

NextSparse == ParseSparsePage \/ TickPage

SpecSparse == InitPage /\ [][NextSparse]_vars

(***************************************************************************)
(* A call of _dedupe on a list of opinions.                                *)
(***************************************************************************)
MaxDedupeLen == 3   \* the longest list given to _dedupe

\* Opinions of two courts: two case numbers, each under two case names.
OpinionPool ==
  {Opinion(n, c, COURTS[k].court_id, COURTS[k].name, FirstNow, "", "",
           COURTS[k].recent_url, "") :
     n \in {"SC2024-123", "2024-456"}, c \in {"Smith v. Jones", "Doe v. State"},
     k \in {1, 2}}

InitDedupe ==
  /\ now = FirstNow
  /\ args = [lookback |-> LOOKBACK_DAYS, no_summarize |-> TRUE]
  /\ module_globals = [config |-> LOOKBACK_DAYS, scraper |-> LOOKBACK_DAYS,
                       main |-> LOOKBACK_DAYS]
  /\ pc = "dedupe"
  /\ cutoff_date = {now - LOOKBACK_DAYS}
  /\ construct_time = now
  /\ court_i = 1
  /\ url_i = 1
  /\ all_opinions = <<>>
  /\ court_log = <<>>
  /\ lastPage = NoPage
  /\ lastParse = NoParse
  /\ loads = <<>>
  /\ new_opinions = <<>>
  /\ state_file = {}
  /\ saves = 0
  /\ sum_i = 1
  /\ summarizer_calls = 0
  /\ feed_calls = <<>>
  /\ dedupe_in \in SeqsUpTo(OpinionPool, MaxDedupeLen)
  /\ dedupe_out = <<>>
  /\ date_in = <<>>
  /\ date_out = <<>>
  /\ row_in = NoRow
  /\ row_out = <<>>
  /\ run_log = <<>>

CallDedupe ==
  /\ pc = "dedupe"
  /\ dedupe_out' = _dedupe(dedupe_in)
  /\ pc' = "deduped"
  /\ UNCHANGED << now, args, module_globals, cutoff_date, construct_time, court_i, url_i,
                  all_opinions, court_log, lastPage, lastParse, loads, new_opinions, state_file,
                  saves, sum_i, summarizer_calls, feed_calls, dedupe_in,
                  date_in, date_out, row_in, row_out, run_log >>

NextDedupe == CallDedupe

SpecDedupe == InitDedupe /\ [][NextDedupe]_vars

(***************************************************************************)
(* Calls of _parse_date on the strings of a list, one after the other.     *)
(***************************************************************************)
MaxDates == 2       \* the longest list of strings given to _parse_date

\* Date strings: empty, white space, each format, two formats at once
\* (May), outer white space, and strings no format parses.
DateStrings ==
  {"", " ", "  01/15/2024  ", "01/15/2024", "01/15/24", "1/5/2024",
   "January 15, 2024", "May 15, 2024", "May 15, 2024 ", "May 15 2024",
   "Jan 15, 2024", "Jan 15 2024", "2024-01-15", "15-Jan-2024", "01-05-2024",
   "TBD", "99/99/2024", "02/30/2024", "01/15/2024 extra"}

InitDate ==
  /\ now = FirstNow
  /\ args = [lookback |-> LOOKBACK_DAYS, no_summarize |-> TRUE]
  /\ module_globals = [config |-> LOOKBACK_DAYS, scraper |-> LOOKBACK_DAYS,
                       main |-> LOOKBACK_DAYS]
  /\ pc = "date"
  /\ cutoff_date = {now - LOOKBACK_DAYS}
  /\ construct_time = now
  /\ court_i = 1
  /\ url_i = 1
  /\ all_opinions = <<>>
  /\ court_log = <<>>
  /\ lastPage = NoPage
  /\ lastParse = NoParse
  /\ loads = <<>>
  /\ new_opinions = <<>>
  /\ state_file = {}
  /\ saves = 0
  /\ sum_i = 1
  /\ summarizer_calls = 0
  /\ feed_calls = <<>>
  /\ dedupe_in = <<>>
  /\ dedupe_out = <<>>
  /\ date_in \in SeqsUpTo(DateStrings, MaxDates)
  /\ date_out = <<>>
  /\ row_in = NoRow
  /\ row_out = <<>>
  /\ run_log = <<>>

\* self._parse_date(date_in[k]) for the next k.
CallParseDate ==
  /\ pc = "date"
  /\ Len(date_out) < Len(date_in)
  /\ date_out' = Append(date_out, _parse_date(date_in[Len(date_out) + 1]))
  /\ UNCHANGED << now, args, module_globals, pc, cutoff_date, construct_time, court_i,
                  url_i, all_opinions, court_log, lastPage, lastParse, loads, new_opinions,
                  state_file, saves, sum_i, summarizer_calls, feed_calls, dedupe_in,
                  dedupe_out, date_in, row_in, row_out, run_log >>

NextDate == CallParseDate

SpecDate == InitDate /\ [][NextDate]_vars

(***************************************************************************)
(* The table strategy on a table of one data row, with or without a header *)
(* row, and on the same table with its columns permuted.                   *)
(***************************************************************************)
MaxCells == 3       \* the most cells of a row

\* Header texts: each field once, and a second header for the date.
HeaderTexts == {"Case Number", "Case Name", "Date", "Date Filed", "Type"}

\* The texts of the cells of a data row, for each text of the date cell.
DateCellTexts == {"01/15/2024", "01/05/2024", "TBD"}

RowCellTexts(date_text) == <<"SC2024-123", "Smith v. Jones", date_text, "Civil", "Fifth Circuit">>

\* Data rows of 1..MaxCells cells.
RowsOfCells ==
  {[th |-> FALSE, cells |-> [i \in 1..n |-> Cell(RowCellTexts(d)[i])]] :
     n \in 1..MaxCells, d \in DateCellTexts}

\* Header rows of n cells.
HeaderRowsOf(n) ==
  {[th |-> TRUE, cells |-> [i \in 1..n |-> Cell(h[i])]] : h \in [1..n -> HeaderTexts]}

\* The identity and the exchanges of two columns, for rows of n cells.
ColumnSwaps(n) ==
  {[k \in 1..n |-> IF k = i THEN j ELSE IF k = j THEN i ELSE k] : i, j \in 1..n}

OneRowTables ==
  {<<r>> : r \in RowsOfCells}
  \cup UNION {{<<h, r>> : h \in HeaderRowsOf(Len(r.cells))} : r \in RowsOfCells}

\* The table with the cells of every row rearranged: column k holds what
\* column perm[k] held.
PermuteColumns(table, perm) ==
  [r \in DOMAIN table |->
     [th |-> table[r].th, cells |-> [k \in DOMAIN perm |-> table[r].cells[perm[k]]]]]

\* The lookback days a deployment may configure.
ConfiguredLookbacks == {0, LOOKBACK_DAYS}

InitRow ==
  /\ now = FirstNow
  /\ args = [lookback |-> LOOKBACK_DAYS, no_summarize |-> TRUE]
  /\ \E lb \in ConfiguredLookbacks :
       /\ module_globals = [config |-> lb, scraper |-> lb, main |-> lb]
       /\ cutoff_date = {now - lb}
  /\ pc = "row"
  /\ construct_time = now
  /\ court_i = 1
  /\ url_i = 1
  /\ all_opinions = <<>>
  /\ court_log = <<>>
  /\ lastPage = NoPage
  /\ lastParse = NoParse
  /\ loads = <<>>
  /\ new_opinions = <<>>
  /\ state_file = {}
  /\ saves = 0
  /\ sum_i = 1
  /\ summarizer_calls = 0
  /\ feed_calls = <<>>
  /\ dedupe_in = <<>>
  /\ dedupe_out = <<>>
  /\ date_in = <<>>
  /\ date_out = <<>>
  /\ \E t \in OneRowTables :
       row_in \in [table : {t}, perm : ColumnSwaps(Len(t[Len(t)].cells))]
  /\ row_out = <<>>
  /\ run_log = <<>>

\* The loop of strategy 1 over the rows of the table: the candidates it
\* parses, before the window filter.
ParseRows ==
  /\ pc = "row"
  /\ pc' = "rows_parsed"
  /\ row_out' =
       [plain |-> TableRowLoop(row_in.table, <<>>, Courts[court_i].court_id,
                               Courts[court_i], urls_to_try(Courts[court_i])[url_i], now),
        permuted |-> TableRowLoop(PermuteColumns(row_in.table, row_in.perm), <<>>,
                                  Courts[court_i].court_id, Courts[court_i],
                                  urls_to_try(Courts[court_i])[url_i], now)]
  /\ UNCHANGED << now, args, module_globals, cutoff_date, construct_time, court_i,
                  url_i, all_opinions, court_log, lastPage, lastParse, loads, new_opinions,
                  state_file, saves, sum_i, summarizer_calls, feed_calls, dedupe_in,
                  dedupe_out, date_in, date_out, row_in, run_log >>

\* Time passes between the construction of the scraper and the parse.
TickRow ==
  /\ pc = "row"
  /\ now < MaxNow
  /\ now' = now + 1
  /\ UNCHANGED << args, module_globals, pc, cutoff_date, construct_time, court_i, url_i,
                  all_opinions, court_log, lastPage, lastParse, loads, new_opinions,
                  state_file, saves, sum_i, summarizer_calls, feed_calls, pureVars >>

NextRow == ParseRows \/ TickRow

SpecRow == InitRow /\ [][NextRow]_vars

(***************************************************************************)
(* Several runs of main on one state file.  Each run starts where          *)
(* scrape_opinions has returned its list.                                  *)
(***************************************************************************)
MaxRuns == 2        \* runs of main

\* The pages the first court serves in these runs: those of MainPages, and a
\* table of two recent opinions with a PDF each.
RunPages ==
  MainPages \cup {TablePage(<<HeaderRow, RowRecentPdf,
                              [th |-> FALSE,
                               cells |-> << LinkCell("SC2024-124", "/download/9981"),
                                            Cell("Doe v. State"), Cell("01/15/2024") >>]>>)}

\* What scrape_opinions returns in a run: the opinions of one of the pages.
RunScrapes ==
  {_parse_opinion_page(page, Courts[1].court_id, Courts[1], Courts[1].recent_url,
                       FirstNow, FirstNow - LOOKBACK_DAYS).opinions : page \in RunPages}

\* The unique ids of the new opinions of the run.
NewIds == {unique_id(all_opinions[new_opinions[k]]) : k \in DOMAIN new_opinions}

InitRuns ==
  /\ now = FirstNow
  /\ args \in [lookback : {LOOKBACK_DAYS}, no_summarize : BOOLEAN]
  /\ module_globals = [config |-> LOOKBACK_DAYS, scraper |-> LOOKBACK_DAYS,
                       main |-> LOOKBACK_DAYS]
  /\ pc = "scraped"
  /\ cutoff_date = {now - LOOKBACK_DAYS}
  /\ construct_time = now
  /\ court_i = 1
  /\ url_i = 1
  /\ all_opinions \in RunScrapes
  /\ court_log = <<>>
  /\ lastPage = NoPage
  /\ lastParse = NoParse
  /\ loads = <<>>
  /\ new_opinions = <<>>
  /\ state_file \in SUBSET SeenBefore
  /\ saves = 0
  /\ sum_i = 1
  /\ summarizer_calls = 0
  /\ feed_calls = <<>>
  /\ dedupe_in = <<>>
  /\ dedupe_out = <<>>
  /\ date_in = <<>>
  /\ date_out = <<>>
  /\ row_in = NoRow
  /\ row_out = <<>>
  /\ run_log = << [seen_before |-> state_file, calls_before |-> 0, passed |-> {}] >>

\* The run ends and main is run again: scrape_opinions returns a list of
\* fresh Opinion objects.
NextRun ==
  /\ pc = "done"
  /\ Len(run_log) < MaxRuns
  /\ pc' = "scraped"
  /\ all_opinions' \in RunScrapes
  /\ new_opinions' = <<>>
  /\ sum_i' = 1
  /\ run_log' =
       Append([run_log EXCEPT ![Len(run_log)].passed =
                 IF summarizer_calls > run_log[Len(run_log)].calls_before
                 THEN NewIds ELSE {}],
              [seen_before |-> state_file, calls_before |-> summarizer_calls, passed |-> {}])
  /\ UNCHANGED << now, args, module_globals, cutoff_date, construct_time, court_i, url_i,
                  court_log, lastPage, lastParse, loads, state_file, saves,
                  summarizer_calls, feed_calls, dedupe_in, dedupe_out, date_in, date_out,
                  row_in, row_out >>

NextRuns ==
  \/ DedupeSeen
  \/ SkipSummarize
  \/ StartSummarize
  \/ SummarizeAllRaises
  \/ SummarizeOne
  \/ FinishSummarize
  \/ MergeSummaries
  \/ GenerateFeed
  \/ NextRun

SpecRuns == InitRuns /\ [][NextRuns]_vars

(***************************************************************************)
(* Properties.                                                             *)
(***************************************************************************)
\* The opinions the courts processed so far returned, in configuration order.
Returned == Concat([i \in DOMAIN court_log |-> court_log[i].returned])

\* C1: in scrape_all_courts a court whose scraping raises contributes no
\* opinion and does not end the run: every configured court is processed, in
\* configuration order, and the list returned is exactly what the courts that
\* did not raise returned, in that order.
C1_FailingCourtDoesNotAbort ==
  /\ \A i \in DOMAIN court_log :
       /\ court_log[i].court_id = Courts[i].court_id
       /\ court_log[i].raised => court_log[i].returned = <<>>
  /\ pc = "courts" => Len(court_log) = court_i - 1 /\ all_opinions = Returned
  /\ pc = "scraped" => Len(court_log) = Len(Courts) /\ all_opinions = Returned
  /\ pc \in {"summarize", "summarizing", "merge", "feed", "done"}
       => Len(court_log) = Len(Courts) /\ Len(all_opinions) = Len(Returned)

\* A court raised and a later court was scraped and gave opinions.
C1_Witness ==
  /\ pc = "scraped"
  /\ \E i, j \in DOMAIN court_log :
       i < j /\ court_log[i].raised /\ court_log[j].returned # <<>>
  /\ all_opinions # <<>>

\* C2: no two opinions of the list scrape_all_courts builds and returns share
\* a unique_id.
C2_NoDuplicateIds ==
  \A i, j \in DOMAIN all_opinions :
    unique_id(all_opinions[i]) = unique_id(all_opinions[j]) => i = j

\* A page offered the same case twice, one opinion of it was kept, and the
\* list holds opinions of two courts.
C2_Witness ==
  /\ pc = "courts"
  /\ lastPage = TablePage(<<HeaderRow, RowRecent, RowUndated>>)
  /\ Len(lastParse.opinions) = 1
  /\ Len(all_opinions) >= 2
  /\ all_opinions[Len(all_opinions)] = lastParse.opinions[1]

\* The recent opinions each strategy parses from the last page, as the call
\* of ParsePage was made.
LastCourt == Courts[court_i]

LastUrl == urls_to_try(LastCourt)[url_i]

RecentTable ==
  RecentOf(TableCandidates(lastPage, LastCourt.court_id, LastCourt, LastUrl, now),
           Some(cutoff_date))

RecentPdfLink ==
  RecentOf(PdfLinkCandidates(lastPage, LastCourt.court_id, LastCourt, LastUrl, now),
           Some(cutoff_date))

RecentContainer ==
  RecentOf(ContainerCandidates(lastPage, LastCourt.court_id, LastCourt, LastUrl, now),
           Some(cutoff_date))

RecentCaseLink ==
  RecentOf(CaseLinkCandidates(lastPage, LastCourt.court_id, LastCourt, LastUrl, now),
           Some(cutoff_date))

StrategyOrder == <<"table", "pdf_link", "container", "case_link">>

RecentBy(k) ==
  CASE k = 1 -> RecentTable [] k = 2 -> RecentPdfLink
    [] k = 3 -> RecentContainer [] k = 4 -> RecentCaseLink

\* C3: _parse_opinion_page is a strict-priority cascade.  The first strategy
\* (table, document link, tagged container, generic link) with a candidate
\* inside the window returns its opinions, deduplicated; the strategies after
\* it are not run and none of their candidates is returned.  When the table
\* strategy has such a candidate, the document-link strategy is not run.
C3_StrictCascade ==
  pc = "parsed" =>
    /\ \A k \in 1..4 :
         (RecentBy(k) # <<>> /\ \A j \in 1..(k - 1) : RecentBy(j) = <<>>)
           => /\ lastParse.ran = SubSeq(StrategyOrder, 1, k)
              /\ Range(lastParse.opinions) \subseteq Range(RecentBy(k))
              /\ {unique_id(o) : o \in Range(lastParse.opinions)}
                   = {unique_id(o) : o \in Range(RecentBy(k))}
              /\ Len(lastParse.opinions)
                   = Cardinality({unique_id(o) : o \in Range(RecentBy(k))})
    /\ RecentTable # <<>> => "pdf_link" \notin Range(lastParse.ran)
    /\ (\A k \in 1..4 : RecentBy(k) = <<>>) => lastParse.opinions = <<>>

\* The page holds a table with a recent row and a document link that would
\* give a recent opinion of its own; only the table strategy ran.
C3_Witness ==
  /\ pc = "parsed"
  /\ RecentTable # <<>>
  /\ RecentPdfLink # <<>>
  /\ Range(RecentPdfLink) \ Range(RecentTable) # {}
  /\ lastParse.ran = <<"table">>

\* The positions of dedupe_in that hold the first opinion with their unique_id.
FirstPositions ==
  {i \in DOMAIN dedupe_in :
     \A j \in 1..(i - 1) : unique_id(dedupe_in[j]) # unique_id(dedupe_in[i])}

LastTableOpinions ==
  LET c == TableCandidates(lastPage, Courts[1].court_id, Courts[1],
                           urls_to_try(Courts[1])[1], now)
  IN {Some(c[i]) : i \in {j \in DOMAIN c : c[j] # {}}}

\* C4: with cutoff = the time the scraper was constructed - LOOKBACK_DAYS,
\* every opinion of the list scraped and of the feed has date >= cutoff, and
\* a case whose table row is dated exactly at the cutoff is in the list.
C4_OutputWithinWindow ==
  /\ cutoff_date # {} => cutoff_date = {construct_time - LOOKBACK_DAYS}
  /\ \A i \in DOMAIN all_opinions : all_opinions[i].date >= Some(cutoff_date)
  /\ \A k \in DOMAIN feed_calls : \A i \in DOMAIN feed_calls[k] :
       feed_calls[k][i].date >= Some(cutoff_date)
  /\ pc = "courts" =>
       \A c \in LastTableOpinions :
         c.date = Some(cutoff_date)
           => \E o \in Range(lastParse.opinions) :
                /\ o.case_number = c.case_number
                /\ o.date = c.date
                /\ o \in Range(all_opinions)

\* The feed was generated with an opinion dated exactly at the cutoff.
C4_Witness ==
  /\ pc = "done"
  /\ \E i \in DOMAIN feed_calls[1] : feed_calls[1][i].date = Some(cutoff_date)

\* C5: with --lookback N the cutoff of the scraper is the time of its
\* construction - N days.
C5_LookbackOverridesCutoff ==
  cutoff_date # {} => cutoff_date = {construct_time - args.lookback}

\* Every candidate of the table strategy on the last page is dated before the
\* cutoff, and the page holds nothing but its table.
AllRowsOld ==
  LET c == TableCandidates(lastPage, LastCourt.court_id, LastCourt, LastUrl, now)
  IN /\ c # <<>>
     /\ \A i \in DOMAIN c : c[i] # {} /\ Some(c[i]).date < Some(cutoff_date)
     /\ lastPage.links = <<>>
     /\ lastPage.containers = <<>>

\* C6: when every data row of a listing page carries a parseable date before
\* the cutoff, _parse_opinion_page returns no opinion for the page, whichever
\* strategies run after the table strategy.
C6_OldRowsGiveNoOpinions ==
  (pc = "parsed" /\ AllRowsOld) => lastParse.opinions = <<>>

\* C8 as claimed: no step changes a field other than summary of an opinion
\* that is in the list.
C8_OnlySummaryChanges ==
  [][\A i \in DOMAIN all_opinions :
       /\ i \in DOMAIN all_opinions'
       /\ [all_opinions'[i] EXCEPT !.summary = all_opinions[i].summary] = all_opinions[i]]_vars

\* C8, amended: no step changes a field other than summary and text_content
\* of an opinion that is in the list, and text_content changes only in the
\* summarizer's loop, for the opinion being summarized, when it was empty and
\* the opinion has a pdf_url.
C8_OnlySummaryAndTextChange ==
  [][\A i \in DOMAIN all_opinions :
       /\ i \in DOMAIN all_opinions'
       /\ [all_opinions'[i] EXCEPT !.summary = all_opinions[i].summary,
                                   !.text_content = all_opinions[i].text_content]
            = all_opinions[i]
       /\ all_opinions'[i].text_content # all_opinions[i].text_content
            => /\ pc = "summarizing"
               /\ i = new_opinions[sum_i]
               /\ all_opinions[i].text_content = 0
               /\ all_opinions[i].pdf_url # ""]_vars

\* The run ended with an opinion whose text was extracted and whose summary
\* was generated.
C8_Witness ==
  /\ pc = "done"
  /\ \E i \in DOMAIN all_opinions :
       all_opinions[i].text_content > 0 /\ all_opinions[i].summary # ""

\* C9: the text_content of every opinion is at most 15,000 characters long.
C9_TextContentCapped ==
  \A i \in DOMAIN all_opinions : all_opinions[i].text_content <= 15000

\* C10: a run whose scrape gave no opinion goes on to its end: the seen state
\* is saved once, summarize_all is never called, and generate_feed is called
\* exactly once, with an empty list.
C10_EmptyRunIsValid ==
  (all_opinions = <<>> /\ pc \in {"scraped", "summarize", "summarizing", "merge", "feed", "done"})
    => /\ summarizer_calls = 0
       /\ pc # "summarizing"
       /\ pc = "scraped" => saves = 0 /\ feed_calls = <<>>
       /\ pc \in {"summarize", "merge", "feed"} => saves = 1 /\ feed_calls = <<>>
       /\ pc = "done" => saves = 1 /\ feed_calls = << <<>> >>
       /\ pc # "done" => ENABLED Next

\* A run with summarization on ended after a scrape that gave no opinion.
C10_Witness ==
  /\ pc = "done"
  /\ all_opinions = <<>>
  /\ ~args.no_summarize
  /\ saves = 1
  /\ feed_calls = << <<>> >>

(***************************************************************************)
(* Identity, dates, URL order: C11, C12, C15                               *)
(***************************************************************************)
\* Case numbers a listing may print, some of them holding the separator.
TrickyCaseNumbers == {"SC2024-123", "2024-456", "1D24-1234", "x:SC2024-123", ":", ""}

\* C11: unique_id is an injective function of (court_id, case_number): two
\* opinions the run produced have the same unique_id exactly when they agree
\* on the court and on the case number; the same holds for every configured
\* court id and every case number, also one that contains the separator.
C11_UniqueIdInjective ==
  /\ \A i, j \in DOMAIN all_opinions :
       i < j =>
         (unique_id(all_opinions[i]) = unique_id(all_opinions[j])
            <=> (/\ all_opinions[i].court_id = all_opinions[j].court_id
                 /\ all_opinions[i].case_number = all_opinions[j].case_number))
  /\ pc = "start" =>
     \A c1, c2 \in DOMAIN COURTS, n1, n2 \in TrickyCaseNumbers :
       unique_id([court_id |-> COURTS[c1].court_id, case_number |-> n1])
         = unique_id([court_id |-> COURTS[c2].court_id, case_number |-> n2])
       => (c1 = c2 /\ n1 = n2)

\* Two courts listed the same case number and both opinions were returned.
C11_Witness ==
  /\ pc = "scraped"
  /\ \E i, j \in DOMAIN all_opinions :
       /\ all_opinions[i].case_number = all_opinions[j].case_number
       /\ all_opinions[i].court_id # all_opinions[j].court_id
       /\ unique_id(all_opinions[i]) # unique_id(all_opinions[j])

\* The formats that parse a string, by their place in the list.
FormatsThatParse(date_str) ==
  {f \in DOMAIN formats : strptime(date_str, formats[f]) # {}}

\* C12: _parse_date never raises.  It returns None for the empty string, for
\* white space and for a string no format parses; for a string some format
\* parses (outer white space aside) it returns the parse of the first such
\* format of the list.
C12_ParseDateTotal ==
  \A k \in DOMAIN date_out :
    LET stripped == Strip(date_in[k])
        ok == FormatsThatParse(stripped)
    IN /\ ValueError \notin date_out[k]
       /\ ok = {} => date_out[k] = {}
       /\ ok # {} =>
            date_out[k] = strptime(stripped, formats[CHOOSE f \in ok : \A g \in ok : f <= g])

\* White space gave None, and a string that two formats parse gave its date.
C12_Witness ==
  /\ date_in = <<" ", "May 15, 2024 ">>
  /\ date_out = <<{}, {136}>>
  /\ Cardinality(FormatsThatParse("May 15, 2024")) = 2

\* The configured court of a load.
CourtOfLoad(load) == CHOOSE c \in Range(Courts) : c.court_id = load.court_id

\* C15: _scrape_court loads the URLs of a court in the order recent, archive,
\* main, each at most once; a load that raised or gave nothing is followed by
\* the next URL, a load that gave opinions is the last one and its opinions
\* are what _scrape_court returns, and [] is returned only after all three
\* URLs raised or gave nothing.
C15_FirstYieldingUrl ==
  pc = "courts" =>
    /\ Len(loads) <= 3
    /\ \A k \in DOMAIN loads :
         /\ loads[k].court_id = loads[1].court_id
         /\ loads[k].url = << CourtOfLoad(loads[k]).recent_url,
                              CourtOfLoad(loads[k]).archive_url,
                              CourtOfLoad(loads[k]).opinions_url >>[k]
         /\ loads[k].raised => loads[k].opinions = <<>>
         /\ k < Len(loads) => loads[k].opinions = <<>>
    /\ url_i > 1 =>
         /\ Len(loads) = url_i - 1
         /\ loads[1].court_id = Courts[court_i].court_id
         /\ loads[Len(loads)].opinions = <<>>
    /\ (url_i = 1 /\ loads # <<>>) =>
         LET returned == court_log[Len(court_log)]
         IN /\ returned.court_id = loads[1].court_id
            /\ ~returned.raised
            /\ returned.returned = loads[Len(loads)].opinions
            /\ returned.returned = <<>> => Len(loads) = 3

\* The recent page raised, the archive page gave nothing and the main page
\* gave the opinions the court returned.
C15_Witness ==
  /\ pc = "courts"
  /\ url_i = 1
  /\ Len(loads) = 3
  /\ loads[1].raised
  /\ ~loads[2].raised
  /\ loads[3].opinions # <<>>
  /\ court_log[Len(court_log)].returned = loads[3].opinions

(***************************************************************************)
(* One-row tables: C16, C18, C19                                           *)
(***************************************************************************)
\* The data row of the table given to the table strategy, the lower-cased
\* headers of its header row (none without one), and the fields read from
\* the columns of the data row.
DataRow == row_in.table[Len(row_in.table)]

HeadersSeen ==
  IF Len(row_in.table) = 1 THEN <<>>
  ELSE [i \in DOMAIN row_in.table[1].cells |-> Lower(row_in.table[1].cells[i].text)]

FieldsRead == RowFields(CellTexts(DataRow.cells), HeadersSeen)

\* C16: a candidate whose date is absent or does not parse is dated with the
\* time of the parse and passes the window filter, whatever the lookback
\* (0 included) and however long after the construction it is parsed.
C16_UndatedPassesWindow ==
  pc = "rows_parsed" =>
    \A k \in DOMAIN row_out.plain :
      (row_out.plain[k] # {} /\ _parse_date(FieldsRead.date_str) = {})
        => /\ Some(row_out.plain[k]).date = now
           /\ Some(row_out.plain[k]).date >= Some(cutoff_date)
           /\ RecentOf(row_out.plain, Some(cutoff_date)) = <<Some(row_out.plain[k])>>

\* With a lookback of 0 days, a row whose date cell reads TBD was parsed a
\* day after the scraper was constructed and dated that day.
C16_Witness ==
  /\ pc = "rows_parsed"
  /\ cutoff_date = {construct_time}
  /\ now > construct_time
  /\ FieldsRead.date_str = "TBD"
  /\ row_out.plain # <<>>
  /\ row_out.plain[1] # {}
  /\ Some(row_out.plain[1]).date = now

\* C18: in a table without a header row, a data row of at least 2 cells is
\* read by position (case_number = cell 0, case_name = cell 1, the date from
\* cell 2 and opinion_type = cell 3 when the row has them), and a row of
\* fewer than 2 cells is skipped.
C18_PositionalFromTwoCells ==
  (pc = "rows_parsed" /\ Len(row_in.table) = 1) =>
    IF Len(DataRow.cells) < 2 THEN row_out.plain = <<>>
    ELSE /\ Len(row_out.plain) = 1
         /\ row_out.plain[1] # {}
         /\ Some(row_out.plain[1]).case_number = DataRow.cells[1].text
         /\ Some(row_out.plain[1]).case_name = DataRow.cells[2].text
         /\ Len(DataRow.cells) >= 3 =>
              Some(row_out.plain[1]).date = DateOr(_parse_date(DataRow.cells[3].text), now)
         /\ Len(DataRow.cells) >= 4 =>
              Some(row_out.plain[1]).opinion_type = DataRow.cells[4].text

\* The headerless row of two cells
\* SC2024-123 | Smith v. Jones was parsed into an Opinion whose name is its
\* number.
C18_TwoCellRowLosesName ==
  /\ pc = "rows_parsed"
  /\ row_in.table = << [th |-> FALSE, cells |-> << Cell("SC2024-123"), Cell("Smith v. Jones") >>] >>
  /\ row_out.plain # <<>>
  /\ row_out.plain[1] # {}
  /\ Some(row_out.plain[1]).case_name = "SC2024-123"

\* The five fields of a candidate that are read from the columns.
ColumnFields(candidate) ==
  IF candidate = {} THEN <<>>
  ELSE << Some(candidate).case_number, Some(candidate).case_name, Some(candidate).date,
          Some(candidate).opinion_type, Some(candidate).lower_tribunal >>

\* C19: permuting the columns of a table with a header row (each header
\* together with its cells) gives candidates with the same case_number,
\* case_name, date, opinion_type and lower_tribunal.
C19_ColumnOrderIndependent ==
  (pc = "rows_parsed" /\ Len(row_in.table) = 2) =>
    /\ Len(row_out.plain) = Len(row_out.permuted)
    /\ \A k \in DOMAIN row_out.plain :
         ColumnFields(row_out.plain[k]) = ColumnFields(row_out.permuted[k])

\* The table Case Number | Date | Date Filed with the row
\* SC2024-123 | Smith v. Jones | 01/05/2024 was parsed as it is and with its
\* last two columns exchanged, and the two dates differ.
C19_TwoDateColumns ==
  /\ pc = "rows_parsed"
  /\ row_in.table =
       << [th |-> TRUE, cells |-> << Cell("Case Number"), Cell("Date"), Cell("Date Filed") >>],
          [th |-> FALSE,
           cells |-> << Cell("SC2024-123"), Cell("Smith v. Jones"), Cell("01/05/2024") >>] >>
  /\ row_in.perm = <<1, 3, 2>>
  /\ Some(row_out.plain[1]).date = 5
  /\ Some(row_out.permuted[1]).date = now

\* The candidates of the four strategies on the page last parsed.
LastCandidates ==
  LET c == Courts[court_i]
      u == urls_to_try(c)[url_i]
  IN TableCandidates(lastPage, c.court_id, c, u, now)
     \o PdfLinkCandidates(lastPage, c.court_id, c, u, now)
     \o ContainerCandidates(lastPage, c.court_id, c, u, now)
     \o CaseLinkCandidates(lastPage, c.court_id, c, u, now)

\* C17: every Opinion a strategy builds, and every Opinion the parse of a
\* page returns, has a non-empty case_number and a non-empty case_name.
C17_NumberAndNameNonEmpty ==
  pc = "parsed" =>
    /\ \A i \in DOMAIN lastParse.opinions :
         lastParse.opinions[i].case_number # "" /\ lastParse.opinions[i].case_name # ""
    /\ \A k \in DOMAIN LastCandidates :
         \A op \in LastCandidates[k] : op.case_number # "" /\ op.case_name # ""

\* A table of a row without a name and a row without a number was parsed:
\* the first row is returned named by its number, the second is discarded.
C17_Witness ==
  /\ pc = "parsed"
  /\ lastPage = TablePage(<<RowNameless, RowNumberless>>)
  /\ Len(lastParse.opinions) = 1
  /\ lastParse.opinions[1].case_number = "SC2024-123"
  /\ lastParse.opinions[1].case_name = "SC2024-123"
  /\ _parse_table_row(RowNumberless.cells, <<>>, Courts[court_i].court_id, Courts[court_i],
                      urls_to_try(Courts[court_i])[url_i], now) = {}

\* The containers of the model parsed for the court being scraped, at each of
\* its URLs.
ContainersOfCourt ==
  IF pc = "courts" /\ court_i <= Len(Courts)
  THEN UNION {_parse_container(c, Courts[court_i].court_id, Courts[court_i],
                               urls_to_try(Courts[court_i])[u], now) :
                c \in {ContainerRecent, ContainerOld}, u \in 1..3}
  ELSE {}

\* C20: every Opinion produced while a court is scraped carries the court_id
\* and the configured name of that court, whatever the strategy and the URL:
\* in the list each court returns, in each page load of the court, in the
\* accumulated list, and in what the container strategy builds for the court.
C20_CourtIsConfiguredCourt ==
  /\ \A i \in DOMAIN court_log :
       /\ court_log[i].court_id = Courts[i].court_id
       /\ \A k \in DOMAIN court_log[i].returned :
            /\ court_log[i].returned[k].court_id = Courts[i].court_id
            /\ court_log[i].returned[k].court_name = Courts[i].name
  /\ \A j \in DOMAIN loads :
       \A k \in DOMAIN loads[j].opinions :
         /\ loads[j].opinions[k].court_id = loads[j].court_id
         /\ loads[j].opinions[k].court_name = CourtOfLoad(loads[j]).name
  /\ \A k \in DOMAIN all_opinions :
       \E i \in DOMAIN Courts :
         /\ all_opinions[k].court_id = Courts[i].court_id
         /\ all_opinions[k].court_name = Courts[i].name
  /\ \A op \in ContainersOfCourt :
       op.court_id = Courts[court_i].court_id /\ op.court_name = Courts[court_i].name

\* The second court returned opinions it found on its archive page, after
\* the first court returned opinions of its own.
C20_Witness ==
  /\ Len(court_log) = 2
  /\ court_log[1].returned # <<>>
  /\ court_log[2].returned # <<>>
  /\ court_log[2].returned[1].court_id = "1dca"
  /\ court_log[2].returned[1].court_name = "First District Court of Appeal"
  /\ court_log[2].returned[1].page_url = Courts[2].archive_url

\* What the last page load of a court gave is what the parse of the loaded
\* page returned, and what the court returned is what its own last load gave,
\* whatever the accumulated list holds.
OwnPageDecides ==
  /\ (loads # <<>> /\ ~loads[Len(loads)].raised) =>
       loads[Len(loads)].opinions = lastParse.opinions
  /\ (pc = "courts" /\ url_i = 1 /\ loads # <<>>) =>
       /\ court_log[Len(court_log)].court_id = loads[Len(loads)].court_id
       /\ court_log[Len(court_log)].returned = loads[Len(loads)].opinions

\* A step of the loop over the courts leaves alone what a court reads (the
\* cutoff, the configuration, the command line) and what the earlier courts
\* returned; it only extends the accumulated list.
CourtStepFrame ==
  (pc = "courts" /\ pc' = "courts") =>
    /\ UNCHANGED << cutoff_date, construct_time, module_globals, args, state_file >>
    /\ Len(court_log') >= Len(court_log)
    /\ SubSeq(court_log', 1, Len(court_log)) = court_log
    /\ Len(all_opinions') >= Len(all_opinions)
    /\ SubSeq(all_opinions', 1, Len(all_opinions)) = all_opinions

IdsOf(opinions) == {unique_id(opinions[i]) : i \in DOMAIN opinions}

\* The unique ids run k passed to summarize_all; for the run under way, the
\* ones it has passed so far.
PassedOfRun(k) ==
  IF k < Len(run_log) THEN run_log[k].passed
  ELSE IF summarizer_calls > run_log[k].calls_before THEN NewIds ELSE {}

\* C22: over the runs of main on one state file, each run leaves in the file
\* the seen ids it found plus the unique ids it scraped, no run passes to
\* the summarizer an opinion whose unique id it found in the file, and no
\* unique id is passed to the summarizer by two runs.
C22_SeenGrowsSummarizedOnce ==
  /\ \A k \in DOMAIN run_log :
       /\ k < Len(run_log) =>
            run_log[k + 1].seen_before = run_log[k].seen_before \cup IdsOf(feed_calls[k])
       /\ PassedOfRun(k) \cap run_log[k].seen_before = {}
       /\ \A j \in DOMAIN run_log : j < k => PassedOfRun(j) \cap PassedOfRun(k) = {}
  /\ (run_log # <<>> /\ pc = "scraped") => state_file = run_log[Len(run_log)].seen_before
  /\ (run_log # <<>> /\ pc # "scraped") =>
       state_file = run_log[Len(run_log)].seen_before \cup IdsOf(all_opinions)

\* The first run summarized an opinion; the second run scraped it again with
\* another opinion and passed only the other one to the summarizer.
C22_Witness ==
  /\ Len(run_log) = 2
  /\ pc = "done"
  /\ run_log[1].passed # {}
  /\ PassedOfRun(2) # {}
  /\ run_log[1].passed \subseteq IdsOf(all_opinions)
  /\ run_log[1].passed \cap PassedOfRun(2) = {}

\* C23: the feed of a run holds every opinion the run scraped, and an
\* opinion that an earlier run passed to the summarizer carries, in the feed
\* of a later run, the summary the earlier run put in its feed.
C23_SeenKeepSummaries ==
  /\ (pc = "done" /\ feed_calls # <<>>) => feed_calls[Len(feed_calls)] = all_opinions
  /\ \A k \in DOMAIN feed_calls : \A j \in 1..(k - 1) :
       \A a \in DOMAIN feed_calls[j], b \in DOMAIN feed_calls[k] :
         (/\ unique_id(feed_calls[j][a]) = unique_id(feed_calls[k][b])
          /\ unique_id(feed_calls[j][a]) \in run_log[j].passed
          /\ feed_calls[j][a].summary # "")
           => feed_calls[k][b].summary = feed_calls[j][a].summary

\* The placeholder of an opinion without text, and the one of a failed API
\* call.
NoTextPlaceholder(opinion) ==
  "[" \o opinion.court_name \o "] " \o opinion.case_number
  \o " - No opinion text available for summarization."

ApiErrorPlaceholder(opinion) == "Summary unavailable for " \o opinion.case_number \o "."

\* The opinion has a summary, and it is the placeholder when there is no text.
HasSummary(opinion) ==
  /\ opinion.summary # ""
  /\ opinion.text_content = 0 => opinion.summary = NoTextPlaceholder(opinion)
  /\ opinion.summary \in {NoTextPlaceholder(opinion), ApiErrorPlaceholder(opinion),
                          "Summary of " \o opinion.case_number}

\* The loop of summarize_opinions has handled the new opinion at position k
\* of new_opinions.
Handled(k) == (pc = "summarizing" /\ k < sum_i) \/ (pc # "summarizing" /\ sum_i > Len(new_opinions))

\* C24: whatever the downloads and the API calls do, the loop of
\* summarize_opinions goes on to the next opinion, every opinion it has
\* handled has a summary (generated or a placeholder) and, when it returns,
\* so has every opinion it was given; and a run whose summarization raised
\* still generates its feed with all scraped opinions.
C24_SummarizationNeverFatal ==
  /\ (pc = "summarizing" /\ sum_i <= Len(new_opinions)) => ENABLED SummarizeOne
  /\ (pc = "summarizing" /\ sum_i > Len(new_opinions)) => ENABLED FinishSummarize
  /\ (pc \in {"summarizing", "merge", "feed", "done"} /\ new_opinions # <<>>) =>
       \A k \in DOMAIN new_opinions :
         Handled(k) => HasSummary(all_opinions[new_opinions[k]])
  /\ pc = "merge" => ENABLED MergeSummaries
  /\ pc = "feed" => ENABLED GenerateFeed
  /\ (pc = "done" /\ run_log # <<>>) =>
       /\ Len(feed_calls) = Len(run_log)
       /\ feed_calls[Len(feed_calls)] = all_opinions

\* Two new opinions with a PDF each were summarized: the download of the
\* first failed and it has the placeholder, the second has a generated
\* summary, and the feed holds both.
C24_Witness ==
  /\ pc = "done"
  /\ new_opinions = <<1, 2>>
  /\ all_opinions[1].pdf_url # ""
  /\ all_opinions[1].text_content = 0
  /\ all_opinions[1].summary
       = "[Supreme Court of Florida] SC2024-123 - No opinion text available for summarization."
  /\ all_opinions[2].summary = "Summary of SC2024-124"
  /\ feed_calls[Len(feed_calls)] = all_opinions

====
